---- MODULE Spec2Model ----
(***************************************************************************)
(* Zephyra: protection manager (registry) and batch coordinator programs.  *)
(* Every entry point is one atomic action: account validation (the Anchor  *)
(* Accounts struct), then the handler body.  A failing call changes no     *)
(* account; only `call` and `result` record that it was made.              *)
(***************************************************************************)
EXTENDS Integers, Naturals, Sequences, FiniteSets, TLC

VARIABLES
    clock,                  \* Clock sysvar: [unix_timestamp, slot]
    overflow_checks,        \* build profile: does integer overflow panic (TRUE) or wrap (FALSE)
    protection_accounts,    \* owner -> ProtectionAccount (PDA "protection", owner)
    transaction_accounts,   \* <<owner, id>> -> Transaction (PDA "transaction", owner, id)
    batch_accounts,         \* <<authority, created_at>> -> Batch (PDA "batch", authority, created_at)
    route_executions,       \* <<transaction id, venue>> -> RouteExecution (PDA "route_execution", id, venue)
    proof_accounts,         \* transaction id -> ProofOfRoute (PDA "proof", id)
    session_accounts,       \* transaction id -> RollupSession (PDA "rollup_session", id)
    call,                   \* the last entry point invoked: [op, signer, target account(, args)]
    result,                 \* its outcome: "Ok" or the error it failed with
    ret,                    \* the value it returned (None when it failed or returns ())
    emitted                 \* the events it emitted, in order (none when it failed)

vars == <<clock, overflow_checks, protection_accounts, transaction_accounts,
          batch_accounts, route_executions, proof_accounts, session_accounts,
          call, result, ret, emitted>>

registryVars == <<protection_accounts, transaction_accounts>>
batchVars == <<batch_accounts>>
routeVars == <<route_executions>>
proofVars == <<proof_accounts>>
sessionVars == <<session_accounts>>

\* ------------------------------------------------------------------ bounds
\* u64 fields are kept at a reduced width: values live in 0 .. 2^U64_BITS - 1
U64_BITS == 14
\* at most this many Transaction accounts are created
MaxTx == 2
\* at most this many Batch accounts are created
MaxBatches == 1
\* mev_attacks_blocked is not driven beyond this value
MaxAttacks == 1
\* callers choose freely among the transactions for the first MaxVaried
\* members of a batch; after that they add the last member again
MaxVaried == 2
\* callers pass candidate lists of at most this many entries (and one of
\* MAX_ROUTES + 1)
MaxRoutes == 3
\* u32 fields are kept at a reduced width: values live in 0 .. 2^U32_BITS - 1
U32_BITS == 8
\* at most this many RollupSession accounts are created
MaxSessions == 1
\* at most this many instructions are executed in one session
MaxInstructions == 2

\* ------------------------------------------------------- program constants
MAX_BATCH_SIZE == 10
MIN_BATCH_AGE_SECONDS == 30
MAX_SLIPPAGE_BPS == 1000
MAX_RISK_SCORE == 100
DEFAULT_SLIPPAGE_BPS == 100
DEFAULT_MEV_RISK_SCORE == 50
FORCE_EXECUTION_TIME_MS == 100
FORCE_TOTAL_SAVINGS == 1000000

U64_MAX == 2 ^ U64_BITS - 1

\* ------------------------------------------------------------ byte strings
\* A 32-byte array is four little-endian 8-byte words; every mixing loop of
\* the programs shifts by a multiple of 8 bytes, so bytewise XOR is wordwise.
RECURSIVE Xor(_, _)
Xor(a, b) ==
    IF a = 0 THEN b
    ELSE IF b = 0 THEN a
    ELSE (((a % 2) + (b % 2)) % 2) + 2 * Xor(a \div 2, b \div 2)

ZERO32 == <<0, 0, 0, 0>>

\* word k (0-based) of a 32-byte array
Word(bytes, k) == bytes[(k % 4) + 1]

Alice == <<1, 0, 0, 0>>
Bob == <<2, 0, 0, 0>>
MintA == <<0, 1, 0, 0>>
MintB == <<0, 0, 1, 0>>

Identities == {Alice, Bob}
Wallets == {Alice}
Authorities == {Alice}
InputTokens == {MintA}
OutputTokens == {MintB}

\* the values the clock takes, in order
ClockTimes == <<0, MIN_BATCH_AGE_SECONDS>>

InputAmounts == {7, 8199}
OutputAmounts == {7, 12295}
RiskScores == {20, 101}
SlippageInputs == {1000, 1001}
MevRiskInputs == {100, 101}
PROOF1 == <<7, 7, 7, 7>>
ProofHashes == {PROOF1}

None == "None"

\* Option<T>: the empty sequence for None, a one-element sequence for Some
NoneValue == <<>>
Some(x) == <<x>>

\* generate_transaction_id: XOR owner at offset 0, input_token at offset 8,
\* output_token at offset 16, amount and timestamp into bytes 24..31
generate_transaction_id(owner, input_token, output_token, input_amount, timestamp) ==
    [k \in 1..4 |->
        LET base == Xor(Xor(Word(owner, k - 1), Word(input_token, k - 1 + 3)),
                        Word(output_token, k - 1 + 2))
        IN  IF k = 4 THEN Xor(base, Xor(input_amount, timestamp)) ELSE base]

\* ------------------------------------------------------------------- state
Init ==
    /\ clock = [unix_timestamp |-> ClockTimes[1], slot |-> 1]
    /\ overflow_checks \in BOOLEAN
    /\ protection_accounts = <<>>
    /\ transaction_accounts = <<>>
    /\ batch_accounts = <<>>
    /\ route_executions = <<>>
    /\ proof_accounts = <<>>
    /\ session_accounts = <<>>
    /\ call = [op |-> "deploy", signer |-> None, target |-> None]
    /\ result = "Ok"
    /\ ret = None
    /\ emitted = <<>>

\* a call that fails: Solana discards every account write of the transaction
Reject(op, signer, target, err) ==
    /\ call' = [op |-> op, signer |-> signer, target |-> target]
    /\ result' = err
    /\ ret' = None
    /\ emitted' = <<>>
    /\ UNCHANGED <<clock, overflow_checks, protection_accounts,
                   transaction_accounts, batch_accounts, route_executions,
                   proof_accounts, session_accounts>>

\* the event each handler of the registry and the coordinator emits on its
\* way out; update_risk_analysis emits only when it is told of an attack
HandlerEvents(op) ==
    CASE op = "initialize_protection" -> <<"ProtectionInitialized">>
      [] op = "submit_transaction" -> <<"TransactionSubmitted">>
      [] op = "update_settings" -> <<"SettingsUpdated">>
      [] op = "update_risk_analysis" -> <<"MEVDetected">>
      [] op = "complete_transaction" -> <<"TransactionCompleted">>
      [] op = "create_batch" -> <<"BatchCreated">>
      [] op = "add_to_batch" -> <<"TransactionAddedToBatch">>
      [] op = "execute_batch" -> <<"BatchExecuted">>
      [] op = "force_execute_batch" -> <<"BatchExecuted">>
      [] op = "cancel_batch" -> <<"BatchCancelled">>
      [] OTHER -> <<>>

\* a call that returns Ok(value) after emitting events
AcceptEmit(c, value, events) ==
    /\ call' = c
    /\ result' = "Ok"
    /\ ret' = value
    /\ emitted' = events
    /\ UNCHANGED <<clock, overflow_checks>>

Accept(op, signer, target, value) ==
    AcceptEmit([op |-> op, signer |-> signer, target |-> target], value, HandlerEvents(op))

\* the record of a call made with arguments
Called(op, signer, target, args) ==
    [op |-> op, signer |-> signer, target |-> target, args |-> args]

\* the record of a registry call that names a transaction
TransactionCall(op, signer, target, transaction_id) ==
    Called(op, signer, target, [transaction_id |-> transaction_id])

\* the record of a coordinator call that names a batch
BatchCall(op, signer, target, batch_id) ==
    Called(op, signer, target, [batch_id |-> batch_id])

\* a call made with arguments that returns Ok(value) after its handler's event
AcceptCall(c, value) == AcceptEmit(c, value, HandlerEvents(c.op))

\* a failing call whose arguments are kept for inspection
RejectCall(c, err) ==
    /\ call' = c
    /\ result' = err
    /\ ret' = None
    /\ emitted' = <<>>
    /\ UNCHANGED <<clock, overflow_checks, protection_accounts,
                   transaction_accounts, batch_accounts, route_executions,
                   proof_accounts, session_accounts>>

\* the Clock sysvar advances between transactions; no entry point is running
Tick ==
    /\ clock.slot < Len(ClockTimes)
    /\ clock' = [unix_timestamp |-> ClockTimes[clock.slot + 1], slot |-> clock.slot + 1]
    /\ call' = [op |-> "Tick", signer |-> None, target |-> None]
    /\ result' = "Ok"
    /\ ret' = None
    /\ emitted' = <<>>
    /\ UNCHANGED <<overflow_checks, protection_accounts, transaction_accounts,
                   batch_accounts, route_executions, proof_accounts, session_accounts>>

\* u64 `+=`: the mathematical sum when it fits; otherwise the build decides
U64Fits(x) == x <= U64_MAX
U64Wrap(x) == x % (U64_MAX + 1)

\* ------------------------------------------------------- protection manager
\* `init_if_needed` in place of `init`: an existing account is no obstacle
ProfileAddressTaken_InitIfNeeded(wallet_address) == FALSE

\* `init` on seeds = [b"protection", wallet_address]: is the PDA in use?
ProfileAddressTaken(wallet_address) == wallet_address \in DOMAIN protection_accounts

\* initialize_protection: `init` fails when the PDA already exists
initialize_protection ==
    \E payer \in Identities, wallet_address \in Wallets :
        IF ProfileAddressTaken(wallet_address)
        THEN Reject("initialize_protection", payer, wallet_address, "AccountAlreadyInUse")
        ELSE /\ protection_accounts' =
                    [w \in DOMAIN protection_accounts \cup {wallet_address} |->
                        IF w = wallet_address
                        THEN [owner |-> wallet_address,
                              total_transactions |-> 0,
                              total_savings |-> 0,
                              mev_attacks_blocked |-> 0,
                              settings |-> [max_slippage_bps |-> DEFAULT_SLIPPAGE_BPS,
                                            max_mev_risk_score |-> DEFAULT_MEV_RISK_SCORE,
                                            auto_execute |-> TRUE,
                                            batch_enabled |-> TRUE]]
                        ELSE protection_accounts[w]]
             /\ UNCHANGED <<transaction_accounts, batch_accounts, route_executions, proof_accounts, session_accounts>>
             /\ Accept("initialize_protection", payer, wallet_address, None)

\* the transaction ids a caller may pass: those of existing records, or zeroes
TransactionIdArgs == {a[2] : a \in DOMAIN transaction_accounts} \cup {ZERO32}

\* seeds that name the owner and the record's own stored id
TransactionSeedsOk_StoredId(pa, ta, transaction_id) == ta[1] = pa

\* seeds = [b"transaction", protection_account.owner, transaction_id]
TransactionSeedsOk(pa, ta, transaction_id) == ta = <<pa, transaction_id>>

\* submit_transaction: the payer signs, no constraint ties it to the owner
submit_transaction ==
    \E payer \in Identities, pa \in DOMAIN protection_accounts,
       input_token \in InputTokens, output_token \in OutputTokens,
       input_amount \in InputAmounts :
        LET owner == protection_accounts[pa].owner
            transaction_id == generate_transaction_id(owner, input_token, output_token,
                                                      input_amount, clock.unix_timestamp)
            addr == <<owner, transaction_id>>
        IN  /\ Cardinality(DOMAIN transaction_accounts) < MaxTx
            /\ IF addr \in DOMAIN transaction_accounts
               THEN Reject("submit_transaction", payer, pa, "AccountAlreadyInUse")
               ELSE /\ transaction_accounts' =
                           [a \in DOMAIN transaction_accounts \cup {addr} |->
                               IF a = addr
                               THEN [id |-> transaction_id,
                                     owner |-> owner,
                                     input_token |-> input_token,
                                     output_token |-> output_token,
                                     input_amount |-> input_amount,
                                     output_amount |-> 0,
                                     risk_score |-> 0,
                                     selected_route |-> 0,
                                     status |-> "Pending",
                                     proof_hash |-> ZERO32,
                                     batch_id |-> NoneValue,
                                     created_at |-> clock.unix_timestamp,
                                     completed_at |-> NoneValue]
                               ELSE transaction_accounts[a]]
                    /\ protection_accounts' =
                           [protection_accounts EXCEPT ![pa].total_transactions = @ + 1]
                    /\ UNCHANGED <<batch_accounts, route_executions, proof_accounts, session_accounts>>
                    /\ Accept("submit_transaction", payer, pa, transaction_id)

\* get_transaction_status: read only
get_transaction_status ==
    \E signer \in Identities, pa \in DOMAIN protection_accounts,
       ta \in DOMAIN transaction_accounts, transaction_id \in TransactionIdArgs :
        IF ~TransactionSeedsOk(pa, ta, transaction_id)
        THEN RejectCall(TransactionCall("get_transaction_status", signer, ta, transaction_id),
                        "ConstraintSeeds")
        ELSE IF transaction_accounts[ta].id # transaction_id
        THEN RejectCall(TransactionCall("get_transaction_status", signer, ta, transaction_id),
                        "InvalidTransactionId")
        ELSE /\ UNCHANGED <<protection_accounts, transaction_accounts, batch_accounts,
                          route_executions, proof_accounts, session_accounts>>
             /\ AcceptCall(TransactionCall("get_transaction_status", signer, ta, transaction_id),
                           transaction_accounts[ta].status)

\* a slippage bound that lets one basis point too many through
SlippageAllowed_OffByOne(max_slippage) == max_slippage <= MAX_SLIPPAGE_BPS + 1

\* require!(max_slippage <= 1000)
SlippageAllowed(max_slippage) == max_slippage <= MAX_SLIPPAGE_BPS

\* require!(max_mev_risk <= 100)
MevRiskAllowed(max_mev_risk) == max_mev_risk <= MAX_RISK_SCORE

\* update_settings: constraint = protection_account.owner == payer.key()
update_settings ==
    \E payer \in Identities, pa \in DOMAIN protection_accounts,
       max_slippage \in SlippageInputs, max_mev_risk \in MevRiskInputs :
        LET c == [op |-> "update_settings", signer |-> payer, target |-> pa,
                  args |-> [max_slippage |-> max_slippage, max_mev_risk |-> max_mev_risk]]
        IN  IF protection_accounts[pa].owner # payer
            THEN RejectCall(c, "ConstraintRaw")
            ELSE IF ~SlippageAllowed(max_slippage)
            THEN RejectCall(c, "InvalidSlippage")
            ELSE IF ~MevRiskAllowed(max_mev_risk)
            THEN RejectCall(c, "InvalidRiskScore")
            ELSE /\ protection_accounts' =
                        [protection_accounts EXCEPT
                            ![pa].settings.max_slippage_bps = max_slippage,
                            ![pa].settings.max_mev_risk_score = max_mev_risk]
                 /\ UNCHANGED <<transaction_accounts, batch_accounts, route_executions,
                                proof_accounts, session_accounts>>
                 /\ AcceptEmit(c, None, HandlerEvents("update_settings"))

\* update_risk_analysis: the Accounts struct holds no Signer; whoever pays
\* the fee may call it
update_risk_analysis ==
    \E signer \in Identities, pa \in DOMAIN protection_accounts,
       ta \in DOMAIN transaction_accounts, transaction_id \in TransactionIdArgs,
       risk_score \in RiskScores, mev_detected \in BOOLEAN :
        /\ mev_detected => protection_accounts[pa].mev_attacks_blocked < MaxAttacks
        /\ IF ~TransactionSeedsOk(pa, ta, transaction_id)
           THEN RejectCall(TransactionCall("update_risk_analysis", signer, ta, transaction_id),
                           "ConstraintSeeds")
           ELSE IF transaction_accounts[ta].id # transaction_id
           THEN RejectCall(TransactionCall("update_risk_analysis", signer, ta, transaction_id),
                           "InvalidTransactionId")
           ELSE IF ~(risk_score <= MAX_RISK_SCORE)
           THEN RejectCall(TransactionCall("update_risk_analysis", signer, ta, transaction_id),
                           "InvalidRiskScore")
           ELSE /\ transaction_accounts' =
                       [transaction_accounts EXCEPT
                           ![ta].risk_score = risk_score,
                           ![ta].status = "Analyzing"]
                /\ protection_accounts' =
                       IF mev_detected
                       THEN [protection_accounts EXCEPT ![pa].mev_attacks_blocked = @ + 1]
                       ELSE protection_accounts
                /\ UNCHANGED <<batch_accounts, route_executions, proof_accounts, session_accounts>>
                /\ AcceptEmit(TransactionCall("update_risk_analysis", signer, ta, transaction_id),
                              None,
                              IF mev_detected THEN HandlerEvents("update_risk_analysis")
                              ELSE <<>>)

\* savings of a completion: max(0, output - input)
Savings(output_amount, input_amount) ==
    IF output_amount > input_amount THEN output_amount - input_amount ELSE 0

\* complete_transaction: no Signer in the Accounts struct, no status check
complete_transaction ==
    \E signer \in Identities, pa \in DOMAIN protection_accounts,
       ta \in DOMAIN transaction_accounts, transaction_id \in TransactionIdArgs,
       output_amount \in OutputAmounts, proof_hash \in ProofHashes :
        LET savings == Savings(output_amount, transaction_accounts[ta].input_amount)
            sum == protection_accounts[pa].total_savings + savings
        IN  IF ~TransactionSeedsOk(pa, ta, transaction_id)
            THEN RejectCall(TransactionCall("complete_transaction", signer, ta, transaction_id),
                            "ConstraintSeeds")
            ELSE IF transaction_accounts[ta].id # transaction_id
            THEN RejectCall(TransactionCall("complete_transaction", signer, ta, transaction_id),
                            "InvalidTransactionId")
            ELSE IF ~U64Fits(sum) /\ overflow_checks
            THEN RejectCall(TransactionCall("complete_transaction", signer, ta, transaction_id),
                            "ArithmeticOverflow")
            ELSE /\ transaction_accounts' =
                        [transaction_accounts EXCEPT
                            ![ta].output_amount = output_amount,
                            ![ta].proof_hash = proof_hash,
                            ![ta].status = "Completed",
                            ![ta].completed_at = Some(clock.unix_timestamp)]
                 /\ protection_accounts' =
                        [protection_accounts EXCEPT ![pa].total_savings = U64Wrap(sum)]
                 /\ UNCHANGED <<batch_accounts, route_executions, proof_accounts, session_accounts>>
                 /\ AcceptCall(TransactionCall("complete_transaction", signer, ta, transaction_id), None)

\* -------------------------------------------------------- batch coordinator
\* generate_batch_id: XOR authority at offset 0, timestamp at offset 8,
\* the clock's slot at offset 16
generate_batch_id(authority, timestamp) ==
    [k \in 1..4 |->
        IF k = 2 THEN Xor(Word(authority, 1), timestamp)
        ELSE IF k = 3 THEN Xor(Word(authority, 2), clock.slot)
        ELSE Word(authority, k - 1)]

\* generate_batch_hash: XOR batch_id at offset 0, timestamp at offset 8
generate_batch_hash(batch_id, timestamp) ==
    [k \in 1..4 |->
        IF k = 2 THEN Xor(Word(batch_id, 1), timestamp) ELSE Word(batch_id, k - 1)]

\* calculate_batch_savings: total_value * 10 / 1000 in u64
calculate_batch_savings(batch_account) ==
    U64Wrap(batch_account.total_value * 10) \div 1000

\* the batch ids a caller may pass: those of existing batches, or zeroes
BatchIdArgs == {batch_accounts[a].id : a \in DOMAIN batch_accounts} \cup {ZERO32}

\* seeds = [b"batch", authority.key(), batch_account.created_at]
BatchSeedsOk(ba, authority) == ba = <<authority, batch_accounts[ba].created_at>>

\* seeds = [b"transaction", transaction_account.owner, transaction_id]
MemberSeedsOk(ta, transaction_id) ==
    ta = <<transaction_accounts[ta].owner, transaction_id>>

\* a status check that only refuses executed batches
BatchIsPending_NotCompleted(batch_account) == batch_account.status # "Completed"

BatchIsPending(batch_account) == batch_account.status = "Pending"

\* the capacity check off by one
BatchHasRoom_OffByOne(batch_account) == batch_account.transaction_count <= MAX_BATCH_SIZE

BatchHasRoom(batch_account) == batch_account.transaction_count < MAX_BATCH_SIZE

BatchNotEmpty(batch_account) == batch_account.transaction_count > 0

\* an insert at the front instead of a push
PushTransaction_Front(transactions, transaction_id) == <<transaction_id>> \o transactions

\* Vec::push
PushTransaction(transactions, transaction_id) == Append(transactions, transaction_id)

\* create_batch: the authority is an unchecked account, the payer signs
create_batch ==
    \E payer \in Identities, authority \in Authorities :
        LET addr == <<authority, clock.unix_timestamp>>
            batch_id == generate_batch_id(authority, clock.unix_timestamp)
        IN  /\ Cardinality(DOMAIN batch_accounts) < MaxBatches
            /\ IF addr \in DOMAIN batch_accounts
               THEN Reject("create_batch", payer, addr, "AccountAlreadyInUse")
               ELSE /\ batch_accounts' =
                           [a \in DOMAIN batch_accounts \cup {addr} |->
                               IF a = addr
                               THEN [id |-> batch_id,
                                     transactions |-> <<>>,
                                     transaction_count |-> 0,
                                     total_value |-> 0,
                                     status |-> "Pending",
                                     created_at |-> clock.unix_timestamp,
                                     executed_at |-> NoneValue,
                                     completed_at |-> NoneValue,
                                     execution_time_ms |-> NoneValue,
                                     batch_hash |-> generate_batch_hash(batch_id,
                                                        clock.unix_timestamp)]
                               ELSE batch_accounts[a]]
                    /\ UNCHANGED <<protection_accounts, transaction_accounts, route_executions,
                                  proof_accounts, session_accounts>>
                    /\ Accept("create_batch", payer, addr, batch_id)

\* an add_to_batch that records the batch in the transaction it was handed
MemberAfterAdd_BatchRecorded(transaction_account, batch_id) ==
    [transaction_account EXCEPT !.batch_id = Some(batch_id)]

\* the transaction account after add_to_batch: the handler borrows it
\* immutably and the account is not `mut`, so it stays as it was (the update
\* of its batch reference is left to the registry)
MemberAfterAdd(transaction_account, batch_id) == transaction_account

\* add_to_batch: the authority is a Signer and seeds the batch address; the
\* transaction account is the registry's record found by its seeds, read only
add_to_batch ==
    \E authority \in Identities, ba \in DOMAIN batch_accounts,
       ta \in DOMAIN transaction_accounts, batch_id \in BatchIdArgs,
       transaction_id \in TransactionIdArgs :
        LET batch_account == batch_accounts[ba]
            sum == batch_account.total_value + transaction_accounts[ta].input_amount
            c == Called("add_to_batch", authority, ba,
                        [batch_id |-> batch_id, transaction_id |-> transaction_id])
        IN  /\ batch_account.transaction_count >= MaxVaried
                => transaction_id = batch_account.transactions[Len(batch_account.transactions)]
            /\ IF ~BatchSeedsOk(ba, authority)
               THEN RejectCall(c, "ConstraintSeeds")
               ELSE IF ~MemberSeedsOk(ta, transaction_id)
               THEN RejectCall(c, "ConstraintSeeds")
               ELSE IF batch_account.id # batch_id
               THEN RejectCall(c, "InvalidBatchId")
               ELSE IF ~BatchIsPending(batch_account)
               THEN RejectCall(c, "BatchNotPending")
               ELSE IF ~BatchHasRoom(batch_account)
               THEN RejectCall(c, "BatchFull")
               ELSE IF ~U64Fits(sum) /\ overflow_checks
               THEN RejectCall(c, "ArithmeticOverflow")
               ELSE /\ batch_accounts' =
                           [batch_accounts EXCEPT
                               ![ba].transactions = PushTransaction(@, transaction_id),
                               ![ba].transaction_count = @ + 1,
                               ![ba].total_value = U64Wrap(sum)]
                    /\ transaction_accounts' =
                           [transaction_accounts EXCEPT ![ta] = MemberAfterAdd(@, batch_id)]
                    /\ UNCHANGED <<protection_accounts, route_executions, proof_accounts,
                                   session_accounts>>
                    /\ AcceptCall(c, None)

\* a runtime that keeps what a failed instruction wrote
DiscardWrites_Kept(before, written) == written

\* an instruction that returns an error after it wrote to an account: the
\* runtime fails the transaction and its account writes, the `init` of the
\* account included, are discarded
DiscardWrites(before, written) == before

\* what an accepted execute_batch leaves in the batch account and returns:
\* the elapsed time is the difference of two readings of the same clock, and
\* batch_hash is not assigned
execute_batch_outcome(batch_account, batch_id) ==
    LET execution_time_ms == (clock.unix_timestamp - clock.unix_timestamp) * 1000
    IN  [batch_account |->
            [batch_account EXCEPT
                !.status = "Completed",
                !.executed_at = Some(clock.unix_timestamp),
                !.completed_at = Some(clock.unix_timestamp),
                !.execution_time_ms = Some(execution_time_ms)],
         result |->
            [batch_id |-> batch_id,
             successful_txs |-> batch_account.transaction_count,
             failed_txs |-> 0,
             total_savings |-> calculate_batch_savings(batch_account),
             execution_time_ms |-> execution_time_ms]]

\* execute_batch: the authority is an unchecked account; nobody has to sign
\* for it.  The batch hash is left as create_batch set it.  The savings are
\* computed after status and executed_at were written.
execute_batch ==
    \E signer \in Identities, authority \in Identities,
       ba \in DOMAIN batch_accounts, batch_id \in BatchIdArgs :
        LET batch_account == batch_accounts[ba]
            outcome == execute_batch_outcome(batch_account, batch_id)
        IN  IF ~BatchSeedsOk(ba, authority)
            THEN RejectCall(BatchCall("execute_batch", signer, ba, batch_id), "ConstraintSeeds")
            ELSE IF batch_account.id # batch_id
            THEN RejectCall(BatchCall("execute_batch", signer, ba, batch_id), "InvalidBatchId")
            ELSE IF ~BatchIsPending(batch_account)
            THEN RejectCall(BatchCall("execute_batch", signer, ba, batch_id), "BatchNotPending")
            ELSE IF ~BatchNotEmpty(batch_account)
            THEN RejectCall(BatchCall("execute_batch", signer, ba, batch_id), "EmptyBatch")
            ELSE IF ~U64Fits(batch_account.total_value * 10) /\ overflow_checks
            THEN /\ batch_accounts' =
                        DiscardWrites(batch_accounts,
                                      [batch_accounts EXCEPT
                                          ![ba].status = "Processing",
                                          ![ba].executed_at = Some(clock.unix_timestamp)])
                 /\ call' = BatchCall("execute_batch", signer, ba, batch_id)
                 /\ result' = "ArithmeticOverflow"
                 /\ ret' = None
                 /\ emitted' = <<>>
                 /\ UNCHANGED <<clock, overflow_checks, protection_accounts,
                                transaction_accounts, route_executions, proof_accounts,
                                session_accounts>>
            ELSE /\ batch_accounts' = [batch_accounts EXCEPT ![ba] = outcome.batch_account]
                 /\ UNCHANGED <<protection_accounts, transaction_accounts, route_executions,
                                proof_accounts, session_accounts>>
                 /\ AcceptCall(BatchCall("execute_batch", signer, ba, batch_id),
                               outcome.result)

\* get_batch_status: read only
get_batch_status ==
    \E signer \in Identities, authority \in Identities,
       ba \in DOMAIN batch_accounts, batch_id \in BatchIdArgs :
        IF ~BatchSeedsOk(ba, authority)
        THEN RejectCall(BatchCall("get_batch_status", signer, ba, batch_id), "ConstraintSeeds")
        ELSE IF batch_accounts[ba].id # batch_id
        THEN RejectCall(BatchCall("get_batch_status", signer, ba, batch_id), "InvalidBatchId")
        ELSE /\ UNCHANGED <<protection_accounts, transaction_accounts, batch_accounts,
                          route_executions, proof_accounts, session_accounts>>
             /\ AcceptCall(BatchCall("get_batch_status", signer, ba, batch_id),
                           batch_accounts[ba].status)

\* an age gate that also refuses a batch of exactly the minimum age
BatchOldEnough_Strict(batch_account) ==
    clock.unix_timestamp - batch_account.created_at > MIN_BATCH_AGE_SECONDS

\* the age gate of force_execute_batch
BatchOldEnough(batch_account) ==
    clock.unix_timestamp - batch_account.created_at >= MIN_BATCH_AGE_SECONDS

\* what an accepted force_execute_batch leaves in the batch account and
\* returns: fixed figures for the elapsed time and the savings, and a batch
\* hash regenerated from the execution time
force_execute_batch_outcome(batch_account) ==
    [batch_account |->
        [batch_account EXCEPT
            !.status = "Completed",
            !.executed_at = Some(clock.unix_timestamp),
            !.completed_at = Some(clock.unix_timestamp),
            !.execution_time_ms = Some(FORCE_EXECUTION_TIME_MS),
            !.batch_hash = generate_batch_hash(batch_account.id, clock.unix_timestamp)],
     result |->
        [batch_id |-> batch_account.id,
         successful_txs |-> batch_account.transaction_count,
         failed_txs |-> 0,
         total_savings |-> FORCE_TOTAL_SAVINGS,
         execution_time_ms |-> FORCE_EXECUTION_TIME_MS]]

\* force_execute_batch: no emptiness check; regenerates the batch hash
force_execute_batch ==
    \E signer \in Identities, authority \in Identities,
       ba \in DOMAIN batch_accounts, batch_id \in BatchIdArgs :
        LET batch_account == batch_accounts[ba]
        IN  IF ~BatchSeedsOk(ba, authority)
            THEN RejectCall(BatchCall("force_execute_batch", signer, ba, batch_id),
                            "ConstraintSeeds")
            ELSE IF batch_account.id # batch_id
            THEN RejectCall(BatchCall("force_execute_batch", signer, ba, batch_id),
                            "InvalidBatchId")
            ELSE IF ~BatchIsPending(batch_account)
            THEN RejectCall(BatchCall("force_execute_batch", signer, ba, batch_id),
                            "BatchNotPending")
            ELSE IF ~BatchOldEnough(batch_account)
            THEN RejectCall(BatchCall("force_execute_batch", signer, ba, batch_id),
                            "BatchTooYoung")
            ELSE /\ batch_accounts' =
                        [batch_accounts EXCEPT
                            ![ba] = force_execute_batch_outcome(batch_account).batch_account]
                 /\ UNCHANGED <<protection_accounts, transaction_accounts, route_executions,
                                proof_accounts, session_accounts>>
                 /\ AcceptCall(BatchCall("force_execute_batch", signer, ba, batch_id),
                               force_execute_batch_outcome(batch_account).result)

\* cancel_batch: the authority is an unchecked account
cancel_batch ==
    \E signer \in Identities, authority \in Identities,
       ba \in DOMAIN batch_accounts, batch_id \in BatchIdArgs :
        LET batch_account == batch_accounts[ba]
        IN  IF ~BatchSeedsOk(ba, authority)
            THEN RejectCall(BatchCall("cancel_batch", signer, ba, batch_id), "ConstraintSeeds")
            ELSE IF batch_account.id # batch_id
            THEN RejectCall(BatchCall("cancel_batch", signer, ba, batch_id), "InvalidBatchId")
            ELSE IF ~BatchIsPending(batch_account)
            THEN RejectCall(BatchCall("cancel_batch", signer, ba, batch_id), "BatchNotPending")
            ELSE /\ batch_accounts' = [batch_accounts EXCEPT ![ba].status = "Failed"]
                 /\ UNCHANGED <<protection_accounts, transaction_accounts, route_executions,
                                  proof_accounts, session_accounts>>
                 /\ AcceptCall(BatchCall("cancel_batch", signer, ba, batch_id), None)

\* ----------------------------------------------------------- route executor
MAX_ROUTES == 10
PRICE_IMPACT_CAP == 10000
U16_MODULUS == 65536
U8_MODULUS == 256

DEXes == {"Jupiter", "Raydium", "Orca"}

\* the seed that names a venue in a RouteExecution address
VenueSeed(dex) ==
    CASE dex = "Jupiter" -> "jupiter"
      [] dex = "Raydium" -> "raydium"
      [] dex = "Orca" -> "orca"

RouteOption(dex, estimated_output, mev_risk_score) ==
    [dex |-> dex, estimated_output |-> estimated_output, price_impact_bps |-> 0,
     mev_risk_score |-> mev_risk_score, liquidity_depth |-> 0]

\* the candidates callers choose from
Candidates ==
    {RouteOption("Jupiter", 100, 50), RouteOption("Raydium", 90, 10),
     RouteOption("Orca", 50, 0), RouteOption("Orca", 200, 0),
     RouteOption("Jupiter", 10, 101)}

RECURSIVE SeqsOf(_, _)
SeqsOf(S, n) ==
    IF n = 0 THEN {<<>>}
    ELSE LET shorter == SeqsOf(S, n - 1)
         IN  shorter \cup {Append(q, x) : q \in {p \in shorter : Len(p) = n - 1}, x \in S}

\* a list one candidate longer than the program accepts
ElevenRoutes == [i \in 1 .. MAX_ROUTES + 1 |-> RouteOption("Raydium", 90, 10)]

RouteLists == SeqsOf(Candidates, MaxRoutes) \cup {ElevenRoutes}

\* only the length of Jupiter's route_data is ever read
RouteDataLens == {0, 128}
MinOutputs == {0, 6}

\* u64 subtraction and multiplication of calculate_route_score
RouteScoreOverflows(route) ==
    \/ 100 - route.mev_risk_score < 0
    \/ ~U64Fits(route.estimated_output * U64Wrap(100 - route.mev_risk_score))

\* calculate_route_score: estimated_output * (100 - mev_risk_score) / 100 in u64
calculate_route_score(route) ==
    U64Wrap(route.estimated_output * U64Wrap(100 - route.mev_risk_score)) \div 100

\* the comparison of the selection loop
BetterScore(score, best_score) == score > best_score

\* the loop of select_best_route over routes[i ..], from the best so far
RECURSIVE BestRouteFrom(_, _, _)
BestRouteFrom(routes, i, best_route) ==
    IF i > Len(routes) THEN best_route
    ELSE IF BetterScore(calculate_route_score(routes[i]), calculate_route_score(best_route))
    THEN BestRouteFrom(routes, i + 1, routes[i])
    ELSE BestRouteFrom(routes, i + 1, best_route)

\* select_best_route: reads the transaction account, writes nothing
select_best_route ==
    \E signer \in Identities, ta \in DOMAIN transaction_accounts, routes \in RouteLists :
        LET c == [op |-> "select_best_route", signer |-> signer, target |-> ta,
                  args |-> [routes |-> routes]]
            best_route == BestRouteFrom(routes, 2, routes[1])
        IN  IF routes = <<>>
            THEN RejectCall(c, "NoRoutesProvided")
            ELSE IF ~(Len(routes) <= MAX_ROUTES)
            THEN RejectCall(c, "TooManyRoutes")
            ELSE IF overflow_checks /\ \E i \in 1 .. Len(routes) : RouteScoreOverflows(routes[i])
            THEN RejectCall(c, "ArithmeticOverflow")
            ELSE /\ UNCHANGED <<protection_accounts, transaction_accounts, batch_accounts,
                               route_executions, proof_accounts, session_accounts>>
                 /\ AcceptEmit(c,
                               [selected_dex |-> best_route.dex,
                                estimated_output |-> best_route.estimated_output,
                                reasoning |-> <<best_route.dex, best_route.mev_risk_score,
                                                best_route.estimated_output>>],
                               <<[name |-> "RouteSelected",
                                  transaction_id |-> transaction_accounts[ta].id,
                                  selected_dex |-> best_route.dex,
                                  alternatives_count |-> Len(routes) % U8_MODULUS]>>)

\* the fee each simulated venue keeps, in percent of the input
VenueKeeps(dex) ==
    CASE dex = "Jupiter" -> 99
      [] dex = "Raydium" -> 98
      [] dex = "Orca" -> 97

\* the simulated slippage, in percent: Jupiter reads the route data length,
\* Raydium and Orca the input amount
VenueSlippage(dex, input_amount, route_data_len) ==
    CASE dex = "Jupiter" -> route_data_len % 5
      [] dex = "Raydium" -> input_amount % 3
      [] dex = "Orca" -> input_amount % 4

\* the u64 products of a simulation
SimulationOverflows(dex, input_amount, route_data_len) ==
    \/ ~U64Fits(input_amount * VenueKeeps(dex))
    \/ ~U64Fits((U64Wrap(input_amount * VenueKeeps(dex)) \div 100)
                    * (100 - VenueSlippage(dex, input_amount, route_data_len)))

\* simulate_jupiter_swap, simulate_raydium_swap, simulate_orca_swap
simulate_swap(dex, input_amount, route_data_len) ==
    LET base_output == U64Wrap(input_amount * VenueKeeps(dex)) \div 100
        slippage_factor == 100 - VenueSlippage(dex, input_amount, route_data_len)
    IN  U64Wrap(base_output * slippage_factor) \div 100

\* integer division of Rust: the quotient is truncated toward zero
TruncDiv(n, d) == IF n >= 0 THEN n \div d ELSE -((-n) \div d)

\* calculate_price_impact: computed in i128, cast to u16, capped at 10000
calculate_price_impact(input_amount, output_amount) ==
    IF input_amount = 0 THEN 0
    ELSE LET impact == TruncDiv((input_amount - output_amount) * 10000, input_amount)
                            % U16_MODULUS
         IN  IF impact < PRICE_IMPACT_CAP THEN impact ELSE PRICE_IMPACT_CAP

\* the u8 product of calculate_mev_risk
MevRiskOverflows(dex, route_data_len) ==
    dex = "Jupiter" /\ (route_data_len % U8_MODULUS) * 2 >= U8_MODULUS

\* calculate_mev_risk, calculate_raydium_mev_risk, calculate_orca_mev_risk
calculate_mev_risk(dex, route_data_len) ==
    CASE dex = "Jupiter" ->
            LET doubled == ((route_data_len % U8_MODULUS) * 2) % U8_MODULUS
            IN  IF doubled < 100 THEN doubled ELSE 100
      [] dex = "Raydium" -> 30 + (clock.unix_timestamp % 40)
      [] dex = "Orca" -> 25 + (clock.unix_timestamp % 35)

\* generate_execution_signature: the first 32 bytes are the transaction id
\* XORed with the amount in every 8-byte word; the last 32 bytes are the
\* first 32 in reverse byte order
generate_execution_signature(transaction_id, output_amount) ==
    LET first == [k \in 1 .. 4 |-> Xor(transaction_id[k], output_amount)]
    IN  [first |-> first, mirrored |-> [k \in 1 .. 4 |-> first[5 - k]]]

\* require!(simulated_output >= min_output)
OutputAcceptable(simulated_output, min_output) == simulated_output >= min_output

\* the proof field of an account `init` has just created: all bytes zero
NoExecutionProof ==
    [pre_balance |-> 0, post_balance |-> 0,
     signature |-> [first |-> ZERO32, mirrored |-> ZERO32], timestamp |-> 0]

\* the body shared by the three swap entry points; route_data_len is read by
\* Jupiter only.  The handler writes transaction_id, dex, input_amount and
\* executed_at into the new account before it simulates the swap and checks
\* the output, and output_amount and price_impact_bps before it computes the
\* risk score.
execute_swap(op, dex, payer, ta, transaction_id, route_data_len, min_output) ==
    LET addr == <<transaction_id, VenueSeed(dex)>>
        c == [op |-> op, signer |-> payer, target |-> addr,
              args |-> [transaction_account |-> ta, min_output |-> min_output,
                        route_data_len |-> route_data_len]]
        input_amount == transaction_accounts[ta].input_amount
        simulated_output == simulate_swap(dex, input_amount, route_data_len)
        started == [transaction_id |-> transaction_id,
                    dex |-> dex,
                    input_amount |-> input_amount,
                    output_amount |-> 0,
                    price_impact_bps |-> 0,
                    mev_risk_score |-> 0,
                    executed_at |-> clock.unix_timestamp,
                    proof |-> NoExecutionProof]
        priced == [started EXCEPT
                      !.output_amount = simulated_output,
                      !.price_impact_bps =
                          calculate_price_impact(input_amount, simulated_output)]
        finished == [priced EXCEPT
                        !.mev_risk_score = calculate_mev_risk(dex, route_data_len),
                        !.proof = [pre_balance |-> input_amount,
                                   post_balance |-> simulated_output,
                                   signature |-> generate_execution_signature(
                                                     transaction_id, simulated_output),
                                   timestamp |-> clock.unix_timestamp]]
        Stored(receipt) ==
            [a \in DOMAIN route_executions \cup {addr} |->
                IF a = addr THEN receipt ELSE route_executions[a]]
        FailAfterWriting(receipt, err) ==
            /\ route_executions' = DiscardWrites(route_executions, Stored(receipt))
            /\ call' = c
            /\ result' = err
            /\ ret' = None
            /\ emitted' = <<>>
            /\ UNCHANGED <<clock, overflow_checks, protection_accounts,
                           transaction_accounts, batch_accounts, proof_accounts,
                           session_accounts>>
    IN  IF ~MemberSeedsOk(ta, transaction_id)
        THEN RejectCall(c, "ConstraintSeeds")
        ELSE IF addr \in DOMAIN route_executions
        THEN RejectCall(c, "AccountAlreadyInUse")
        ELSE IF overflow_checks /\ SimulationOverflows(dex, input_amount, route_data_len)
        THEN FailAfterWriting(started, "ArithmeticOverflow")
        ELSE IF ~OutputAcceptable(simulated_output, min_output)
        THEN FailAfterWriting(started, "SlippageExceeded")
        ELSE IF overflow_checks /\ MevRiskOverflows(dex, route_data_len)
        THEN FailAfterWriting(priced, "ArithmeticOverflow")
        ELSE /\ route_executions' = Stored(finished)
             /\ UNCHANGED <<protection_accounts, transaction_accounts, batch_accounts,
                            proof_accounts, session_accounts>>
             /\ AcceptEmit(c, simulated_output,
                           <<[name |-> "RouteExecuted", transaction_id |-> transaction_id,
                              dex |-> dex, input_amount |-> input_amount,
                              output_amount |-> simulated_output]>>)

execute_jupiter_swap ==
    \E payer \in Identities, ta \in DOMAIN transaction_accounts,
       transaction_id \in TransactionIdArgs, route_data_len \in RouteDataLens,
       min_output \in MinOutputs :
        execute_swap("execute_jupiter_swap", "Jupiter", payer, ta, transaction_id,
                     route_data_len, min_output)

execute_raydium_swap ==
    \E payer \in Identities, ta \in DOMAIN transaction_accounts,
       transaction_id \in TransactionIdArgs, min_output \in MinOutputs :
        execute_swap("execute_raydium_swap", "Raydium", payer, ta, transaction_id, 0,
                     min_output)

execute_orca_swap ==
    \E payer \in Identities, ta \in DOMAIN transaction_accounts,
       transaction_id \in TransactionIdArgs, min_output \in MinOutputs :
        execute_swap("execute_orca_swap", "Orca", payer, ta, transaction_id, 0,
                     min_output)

\* ----------------------------------------------------------- proof verifier
HASH_LEN == 32
MAX_PROBABILITY == 100
DEFAULT_SIMULATION_TIME == 50
DEFAULT_ROUTE_SELECTION_TIME == 30
DEFAULT_EXECUTION_TIME == 20
DEFAULT_TOTAL_TIME == 100
\* ProofOfRoute::INIT_SPACE: the bytes reserved for the serialized record
PROOF_INIT_SPACE == 1066
ROUTE_OPTION_BYTES == 20
MEV_DETECTION_BYTES == 10
\* #[max_len(20)] of mev_detection_log: the entries INIT_SPACE reserves room for
MAX_DETECTION_LOG == 20

U32_MAX == 2 ^ U32_BITS - 1

\* DEX::to_bytes
DexByte(dex) ==
    CASE dex = "Jupiter" -> 0
      [] dex = "Raydium" -> 1
      [] dex = "Orca" -> 2

\* byte j (0-based) of the little-endian encoding of a number below 2^31
LeByte(n, j) == IF j < 4 THEN (n \div (U8_MODULUS ^ j)) % U8_MODULUS ELSE 0

\* byte p (0-based) of a 32-byte array kept as four words
ByteAt(bytes, p) == LeByte(bytes[(p \div 8) + 1], p % 8)

\* the positions generate_proof_hash indexes for byte i of the timestamp
TimestampPosition(i) == 26 + i

\* hash[26 + i] for i in 0 .. 7 reaches past the end of the 32-byte array,
\* and an index past the array aborts the program
ProofHashIndexOutOfBounds == \E i \in 0 .. 7 : TimestampPosition(i) >= HASH_LEN

\* what the loop over routes_considered XORs into position p
RECURSIVE RoutesContribution(_, _)
RoutesContribution(routes, p) ==
    IF routes = <<>> THEN 0
    ELSE LET route == Head(routes)
             here == IF p = 0 THEN DexByte(route.dex)
                     ELSE IF p \in 8 .. 15 THEN LeByte(route.estimated_output, p - 8)
                     ELSE IF p = 16 THEN route.mev_risk_score
                     ELSE 0
         IN  Xor(here, RoutesContribution(Tail(routes), p))

\* generate_proof_hash: XOR the transaction id at 0, every route's venue at
\* 0, output at 8 and risk at 16, the selected venue at 17, the first 8 bytes
\* of the reasoning at 18 and the timestamp at TimestampPosition(0); the
\* value it returns when no index leaves the array
generate_proof_hash(transaction_id, routes_considered, selected_route, reasoning, timestamp) ==
    [p \in 0 .. HASH_LEN - 1 |->
        Xor(Xor(Xor(ByteAt(transaction_id, p), RoutesContribution(routes_considered, p)),
                Xor(IF p = 17 THEN DexByte(selected_route) ELSE 0,
                    IF p \in 18 .. 25 /\ p - 17 <= Len(reasoning)
                    THEN reasoning[p - 17] ELSE 0)),
            IF p >= TimestampPosition(0)
            THEN LeByte(timestamp, p - TimestampPosition(0)) ELSE 0)]

\* the Borsh size of a ProofOfRoute, which has to fit the account
ProofSize(proof) ==
    HASH_LEN + 32 + (4 + ROUTE_OPTION_BYTES * Len(proof.routes_considered)) + 1
    + (4 + Len(proof.selection_reasoning))
    + (4 + MEV_DETECTION_BYTES * Len(proof.mev_detection_log)) + 4 * 4
    + (IF proof.blockchain_signature = NoneValue THEN 1 ELSE 1 + 64) + 8

ZeroHash == [p \in 0 .. HASH_LEN - 1 |-> 0]

\* the fingerprints a caller may pass: a stored one, or zeroes
ProofHashArgs == {proof_accounts[a].proof_hash : a \in DOMAIN proof_accounts} \cup {ZeroHash}

\* UTF-8 bytes of the reasoning texts callers pass
Reasonings == {<<>>, <<82, 49>>}
ProofRouteLists ==
    {<<>>, <<RouteOption("Jupiter", 100, 50)>>,
     <<RouteOption("Jupiter", 100, 50), RouteOption("Raydium", 90, 10)>>}
AttackTypes == {"SandwichAttack", "FrontRunning"}
Probabilities == {80, 101}
TimingInputs == {20, 200}
SIG1 == <<9, 9, 9, 9, 9, 9, 9, 9>>
Signatures == {SIG1}

\* generate_proof: `init` of the PDA seeded by the transaction id, then the
\* handler, which computes the fingerprint first
generate_proof ==
    \E payer \in Identities, target \in TransactionIdArgs,
       transaction_id \in TransactionIdArgs, routes_considered \in ProofRouteLists,
       selected_route \in DEXes, reasoning \in Reasonings :
        LET c == [op |-> "generate_proof", signer |-> payer, target |-> target,
                  args |-> [transaction_id |-> transaction_id,
                            routes_considered |-> routes_considered,
                            selected_route |-> selected_route,
                            reasoning |-> reasoning]]
            proof_hash == generate_proof_hash(transaction_id, routes_considered,
                                              selected_route, reasoning,
                                              clock.unix_timestamp)
            proof == [proof_hash |-> proof_hash,
                      transaction_id |-> transaction_id,
                      routes_considered |-> routes_considered,
                      selected_route |-> selected_route,
                      selection_reasoning |-> reasoning,
                      mev_detection_log |-> <<>>,
                      simulation_time |-> DEFAULT_SIMULATION_TIME,
                      route_selection_time |-> DEFAULT_ROUTE_SELECTION_TIME,
                      execution_time |-> DEFAULT_EXECUTION_TIME,
                      total_time |-> DEFAULT_TOTAL_TIME,
                      blockchain_signature |-> NoneValue,
                      created_at |-> clock.unix_timestamp]
        IN  IF target # transaction_id
            THEN RejectCall(c, "ConstraintSeeds")
            ELSE IF target \in DOMAIN proof_accounts
            THEN RejectCall(c, "AccountAlreadyInUse")
            ELSE IF ProofHashIndexOutOfBounds
            THEN RejectCall(c, "Panic")
            ELSE IF ProofSize(proof) > PROOF_INIT_SPACE
            THEN RejectCall(c, "AccountDidNotSerialize")
            ELSE /\ proof_accounts' =
                        [a \in DOMAIN proof_accounts \cup {target} |->
                            IF a = target THEN proof ELSE proof_accounts[a]]
                 /\ UNCHANGED <<protection_accounts, transaction_accounts, batch_accounts,
                                route_executions, session_accounts>>
                 /\ AcceptEmit(c, proof_hash,
                               <<[name |-> "ProofGenerated", proof_hash |-> proof_hash,
                                  transaction_id |-> transaction_id,
                                  routes_count |-> Len(routes_considered) % U8_MODULUS]>>)

\* verify_proof: the account has to exist and to sit at the address seeded
\* by the transaction_id argument before the handler compares anything
verify_proof ==
    \E signer \in Identities, target \in TransactionIdArgs,
       proof_hash \in ProofHashArgs, transaction_id \in TransactionIdArgs :
        LET c == [op |-> "verify_proof", signer |-> signer, target |-> target,
                  args |-> [proof_hash |-> proof_hash, transaction_id |-> transaction_id]]
        IN  IF target \notin DOMAIN proof_accounts
            THEN RejectCall(c, "AccountNotInitialized")
            ELSE IF target # transaction_id
            THEN RejectCall(c, "ConstraintSeeds")
            ELSE LET is_valid == /\ proof_accounts[target].proof_hash = proof_hash
                                 /\ proof_accounts[target].transaction_id = transaction_id
                 IN  /\ UNCHANGED <<protection_accounts, transaction_accounts,
                                    batch_accounts, route_executions, proof_accounts,
                                    session_accounts>>
                     /\ AcceptEmit(c, is_valid,
                                   <<[name |-> "ProofVerified", proof_hash |-> proof_hash,
                                      valid |-> is_valid]>>)

\* get_proof_data: read only
get_proof_data ==
    \E signer \in Identities, target \in TransactionIdArgs, proof_hash \in ProofHashArgs :
        LET c == [op |-> "get_proof_data", signer |-> signer, target |-> target,
                  args |-> [proof_hash |-> proof_hash]]
        IN  IF target \notin DOMAIN proof_accounts
            THEN RejectCall(c, "AccountNotInitialized")
            ELSE IF ~(proof_accounts[target].proof_hash = proof_hash)
            THEN RejectCall(c, "InvalidProofHash")
            ELSE /\ UNCHANGED <<protection_accounts, transaction_accounts, batch_accounts,
                                route_executions, proof_accounts, session_accounts>>
                 /\ AcceptEmit(c, proof_accounts[target], <<>>)

\* add_mev_detection: no Signer in the Accounts struct
add_mev_detection ==
    \E signer \in Identities, target \in TransactionIdArgs, proof_hash \in ProofHashArgs,
       attack_type \in AttackTypes, probability \in Probabilities :
        LET c == [op |-> "add_mev_detection", signer |-> signer, target |-> target,
                  args |-> [proof_hash |-> proof_hash, attack_type |-> attack_type,
                            probability |-> probability]]
        IN  IF target \notin DOMAIN proof_accounts
            THEN RejectCall(c, "AccountNotInitialized")
            ELSE IF ~(proof_accounts[target].proof_hash = proof_hash)
            THEN RejectCall(c, "InvalidProofHash")
            ELSE IF ~(probability <= MAX_PROBABILITY)
            THEN RejectCall(c, "InvalidProbability")
            ELSE LET proof == [proof_accounts[target] EXCEPT
                                  !.mev_detection_log =
                                      Append(@, [attack_type |-> attack_type,
                                                 probability |-> probability,
                                                 detected_at |-> clock.unix_timestamp])]
                 IN  IF ProofSize(proof) > PROOF_INIT_SPACE
                     THEN RejectCall(c, "AccountDidNotSerialize")
                     ELSE /\ proof_accounts' = [proof_accounts EXCEPT ![target] = proof]
                          /\ UNCHANGED <<protection_accounts, transaction_accounts,
                                         batch_accounts, route_executions, session_accounts>>
                          /\ AcceptEmit(c, None,
                                        <<[name |-> "MEVDetectionAdded",
                                           proof_hash |-> proof_hash,
                                           attack_type |-> attack_type,
                                           probability |-> probability]>>)

\* update_execution_timing: the three phases are overwritten and summed in u32
update_execution_timing ==
    \E signer \in Identities, target \in TransactionIdArgs, proof_hash \in ProofHashArgs,
       simulation_time \in TimingInputs, route_selection_time \in TimingInputs,
       execution_time \in TimingInputs :
        LET c == [op |-> "update_execution_timing", signer |-> signer, target |-> target,
                  args |-> [proof_hash |-> proof_hash,
                            simulation_time |-> simulation_time,
                            route_selection_time |-> route_selection_time,
                            execution_time |-> execution_time]]
            sum == simulation_time + route_selection_time + execution_time
        IN  IF target \notin DOMAIN proof_accounts
            THEN RejectCall(c, "AccountNotInitialized")
            ELSE IF ~(proof_accounts[target].proof_hash = proof_hash)
            THEN RejectCall(c, "InvalidProofHash")
            ELSE IF overflow_checks /\ sum > U32_MAX
            THEN RejectCall(c, "ArithmeticOverflow")
            ELSE /\ proof_accounts' =
                        [proof_accounts EXCEPT
                            ![target].simulation_time = simulation_time,
                            ![target].route_selection_time = route_selection_time,
                            ![target].execution_time = execution_time,
                            ![target].total_time = sum % (U32_MAX + 1)]
                 /\ UNCHANGED <<protection_accounts, transaction_accounts, batch_accounts,
                                route_executions, session_accounts>>
                 /\ AcceptEmit(c, None,
                               <<[name |-> "ExecutionTimingUpdated",
                                  proof_hash |-> proof_hash,
                                  total_time |-> sum % (U32_MAX + 1)]>>)

\* set_blockchain_signature: overwrites the optional signature
set_blockchain_signature ==
    \E signer \in Identities, target \in TransactionIdArgs, proof_hash \in ProofHashArgs,
       signature \in Signatures :
        LET c == [op |-> "set_blockchain_signature", signer |-> signer, target |-> target,
                  args |-> [proof_hash |-> proof_hash, signature |-> signature]]
        IN  IF target \notin DOMAIN proof_accounts
            THEN RejectCall(c, "AccountNotInitialized")
            ELSE IF ~(proof_accounts[target].proof_hash = proof_hash)
            THEN RejectCall(c, "InvalidProofHash")
            ELSE IF ProofSize([proof_accounts[target] EXCEPT
                                  !.blockchain_signature = Some(signature)])
                        > PROOF_INIT_SPACE
            THEN RejectCall(c, "AccountDidNotSerialize")
            ELSE /\ proof_accounts' =
                        [proof_accounts EXCEPT
                            ![target].blockchain_signature = Some(signature)]
                 /\ UNCHANGED <<protection_accounts, transaction_accounts, batch_accounts,
                                route_executions, session_accounts>>
                 /\ AcceptEmit(c, None,
                               <<[name |-> "BlockchainSignatureSet",
                                  proof_hash |-> proof_hash, signature |-> signature]>>)

\* ------------------------------------------------ ephemeral rollup sessions
ROLLUP_SESSION_TIMEOUT == 300
GAS_PER_BYTE == 1000
BASE_EXECUTION_TIME_MS == 10
EXECUTION_TIME_SPREAD == 50
SIGNATURE_LEN == 64

\* the values the clock takes while sessions are exercised: a session opened
\* at the first or the second value has run out at the third
SessionClockTimes == <<0, MIN_BATCH_AGE_SECONDS, MIN_BATCH_AGE_SECONDS + ROLLUP_SESSION_TIMEOUT>>

\* the Clock sysvar advances between transactions, up to the end of a session
SessionTick ==
    /\ clock.slot < Len(SessionClockTimes)
    /\ clock' = [unix_timestamp |-> SessionClockTimes[clock.slot + 1],
                 slot |-> clock.slot + 1]
    /\ call' = [op |-> "Tick", signer |-> None, target |-> None]
    /\ result' = "Ok"
    /\ ret' = None
    /\ emitted' = <<>>
    /\ UNCHANGED <<overflow_checks, protection_accounts, transaction_accounts,
                   batch_accounts, route_executions, proof_accounts, session_accounts>>

\* the transaction identifiers sessions are opened for: any 32 bytes will do,
\* no transaction record is looked up
SessionTransactionIds == {Alice, PROOF1}

\* the instruction byte strings callers pass
InstructionDatas == {<<>>, <<1>>, <<2, 3>>}

\* generate_session_id: XOR transaction_id at offset 0, timestamp at offset
\* 8, the clock's slot at offset 16
generate_session_id(transaction_id, timestamp) ==
    [k \in 1..4 |->
        IF k = 2 THEN Xor(Word(transaction_id, 1), timestamp)
        ELSE IF k = 3 THEN Xor(Word(transaction_id, 2), clock.slot)
        ELSE Word(transaction_id, k - 1)]

\* simulate_rollup_execution: succeeds on any non-empty instruction
simulate_rollup_execution(instruction_data) ==
    [success |-> Len(instruction_data) > 0,
     output_data |-> instruction_data,
     execution_time_ms |->
        BASE_EXECUTION_TIME_MS + (Len(instruction_data) % EXECUTION_TIME_SPREAD),
     gas_used |-> Len(instruction_data) * GAS_PER_BYTE]

\* what the loop over the instruction bytes XORs into position p
RECURSIVE InstructionContribution(_, _, _)
InstructionContribution(instruction_data, i, p) ==
    IF i > Len(instruction_data) THEN 0
    ELSE Xor(IF (i - 1) % HASH_LEN = p THEN instruction_data[i] ELSE 0,
             InstructionContribution(instruction_data, i + 1, p))

\* update_state_hash: XOR byte i of the instruction into position i % 32,
\* then the success flag into position 31
update_state_hash(current_hash, instruction_data, success) ==
    [p \in 0 .. HASH_LEN - 1 |->
        Xor(Xor(current_hash[p], InstructionContribution(instruction_data, 1, p)),
            IF p = HASH_LEN - 1 /\ success THEN 1 ELSE 0)]

\* generate_commit_signature: the proof hash XORed with the slot bytes, then
\* the same in reverse order
generate_commit_signature(hash) ==
    [i \in 0 .. SIGNATURE_LEN - 1 |->
        IF i < HASH_LEN THEN Xor(hash[i], LeByte(clock.slot, i % 8))
        ELSE Xor(hash[HASH_LEN - 1 - (i - HASH_LEN)],
                 LeByte(clock.slot, 7 - ((i - HASH_LEN) % 8)))]

\* a commit proof that reports its own hash in place of the state hash
generate_commit_proof_OwnHash(state_hash, instructions_executed, timestamp) ==
    LET hash == [p \in 0 .. HASH_LEN - 1 |->
                    Xor(state_hash[p],
                        Xor(IF p \in 8 .. 11 THEN LeByte(instructions_executed, p - 8) ELSE 0,
                            IF p \in 16 .. 23 THEN LeByte(timestamp, p - 16) ELSE 0))]
    IN  [hash |-> hash,
         state_hash |-> hash,
         instructions_executed |-> instructions_executed,
         timestamp |-> timestamp,
         signature |-> generate_commit_signature(hash)]

\* generate_commit_proof: XOR state_hash at 0, the instruction count at 8,
\* the timestamp at 16
generate_commit_proof(state_hash, instructions_executed, timestamp) ==
    LET hash == [p \in 0 .. HASH_LEN - 1 |->
                    Xor(state_hash[p],
                        Xor(IF p \in 8 .. 11 THEN LeByte(instructions_executed, p - 8) ELSE 0,
                            IF p \in 16 .. 23 THEN LeByte(timestamp, p - 16) ELSE 0))]
    IN  [hash |-> hash,
         state_hash |-> state_hash,
         instructions_executed |-> instructions_executed,
         timestamp |-> timestamp,
         signature |-> generate_commit_signature(hash)]

\* the session ids a caller may pass: those of existing sessions, or zeroes
SessionIdArgs == {session_accounts[a].id : a \in DOMAIN session_accounts} \cup {ZERO32}

\* a status check that only refuses committed sessions
SessionIsActive_NotCommitted(session_account) == session_account.status # "Committed"

\* require!(session_account.status == RollupStatus::Active)
SessionIsActive(session_account) == session_account.status = "Active"

\* require!(clock.unix_timestamp < session_account.expires_at)
SessionUnexpired(session_account) == clock.unix_timestamp < session_account.expires_at

\* init_rollup_session: `init` of the PDA seeded by the transaction id
init_rollup_session ==
    \E payer \in Identities, target \in SessionTransactionIds,
       transaction_id \in SessionTransactionIds :
        LET c == [op |-> "init_rollup_session", signer |-> payer, target |-> target,
                  args |-> [transaction_id |-> transaction_id]]
            session_id == generate_session_id(transaction_id, clock.unix_timestamp)
        IN  /\ Cardinality(DOMAIN session_accounts) < MaxSessions
            /\ IF target # transaction_id
               THEN RejectCall(c, "ConstraintSeeds")
               ELSE IF target \in DOMAIN session_accounts
               THEN RejectCall(c, "AccountAlreadyInUse")
               ELSE /\ session_accounts' =
                           [a \in DOMAIN session_accounts \cup {target} |->
                               IF a = target
                               THEN [id |-> session_id,
                                     transaction_id |-> transaction_id,
                                     status |-> "Active",
                                     created_at |-> clock.unix_timestamp,
                                     expires_at |-> clock.unix_timestamp
                                                        + ROLLUP_SESSION_TIMEOUT,
                                     instructions_executed |-> 0,
                                     state_hash |-> ZeroHash,
                                     committed_at |-> NoneValue,
                                     rolled_back_at |-> NoneValue]
                               ELSE session_accounts[a]]
                    /\ UNCHANGED <<protection_accounts, transaction_accounts,
                                   batch_accounts, route_executions, proof_accounts>>
                    /\ AcceptEmit(c, session_id,
                                  <<[name |-> "RollupSessionInitialized",
                                     session_id |-> session_id,
                                     transaction_id |-> transaction_id,
                                     timestamp |-> clock.unix_timestamp]>>)

\* execute_in_rollup: no Signer in the Accounts struct; the only entry point
\* that looks at expires_at
execute_in_rollup ==
    \E signer \in Identities, target \in SessionTransactionIds,
       session_id \in SessionIdArgs, instruction_data \in InstructionDatas :
        LET c == [op |-> "execute_in_rollup", signer |-> signer, target |-> target,
                  args |-> [session_id |-> session_id,
                            instruction_data |-> instruction_data]]
        IN  IF target \notin DOMAIN session_accounts
            THEN RejectCall(c, "AccountNotInitialized")
            ELSE LET session_account == session_accounts[target]
                     execution_result == simulate_rollup_execution(instruction_data)
                     count == session_account.instructions_executed + 1
                 IN  IF session_account.id # session_id
                     THEN RejectCall(c, "InvalidSessionId")
                     ELSE IF ~SessionIsActive(session_account)
                     THEN RejectCall(c, "SessionNotActive")
                     ELSE IF ~SessionUnexpired(session_account)
                     THEN RejectCall(c, "SessionExpired")
                     ELSE IF overflow_checks /\ count > U32_MAX
                     THEN RejectCall(c, "ArithmeticOverflow")
                     ELSE /\ session_account.instructions_executed < MaxInstructions
                          /\ session_accounts' =
                                [session_accounts EXCEPT
                                    ![target].instructions_executed = count % (U32_MAX + 1),
                                    ![target].state_hash =
                                        update_state_hash(session_account.state_hash,
                                                          instruction_data,
                                                          execution_result.success)]
                          /\ UNCHANGED <<protection_accounts, transaction_accounts,
                                         batch_accounts, route_executions, proof_accounts>>
                          /\ AcceptEmit(c, execution_result,
                                        <<[name |-> "InstructionExecuted",
                                           session_id |-> session_id,
                                           instruction_data |-> instruction_data,
                                           success |-> execution_result.success,
                                           timestamp |-> clock.unix_timestamp]>>)

\* commit_rollup: checks the id and the status; expires_at is not read
commit_rollup ==
    \E signer \in Identities, target \in SessionTransactionIds,
       session_id \in SessionIdArgs :
        LET c == [op |-> "commit_rollup", signer |-> signer, target |-> target,
                  args |-> [session_id |-> session_id]]
        IN  IF target \notin DOMAIN session_accounts
            THEN RejectCall(c, "AccountNotInitialized")
            ELSE LET session_account == session_accounts[target]
                     commit_proof == generate_commit_proof(session_account.state_hash,
                                         session_account.instructions_executed,
                                         clock.unix_timestamp)
                 IN  IF session_account.id # session_id
                     THEN RejectCall(c, "InvalidSessionId")
                     ELSE IF ~SessionIsActive(session_account)
                     THEN RejectCall(c, "SessionNotActive")
                     ELSE /\ session_accounts' =
                                [session_accounts EXCEPT
                                    ![target].status = "Committed",
                                    ![target].committed_at = Some(clock.unix_timestamp)]
                          /\ UNCHANGED <<protection_accounts, transaction_accounts,
                                         batch_accounts, route_executions, proof_accounts>>
                          /\ AcceptEmit(c, commit_proof,
                                        <<[name |-> "RollupCommitted",
                                           session_id |-> session_id,
                                           state_hash |-> session_account.state_hash,
                                           instructions_executed |->
                                               session_account.instructions_executed,
                                           commit_proof |-> commit_proof.hash,
                                           timestamp |-> clock.unix_timestamp]>>)

\* the reasons callers give for a rollback
RollbackReasons == {"timeout"}

\* rollback_rollup: checks the id and the status; expires_at is not read
rollback_rollup ==
    \E signer \in Identities, target \in SessionTransactionIds,
       session_id \in SessionIdArgs, reason \in RollbackReasons :
        LET c == [op |-> "rollback_rollup", signer |-> signer, target |-> target,
                  args |-> [session_id |-> session_id, reason |-> reason]]
        IN  IF target \notin DOMAIN session_accounts
            THEN RejectCall(c, "AccountNotInitialized")
            ELSE LET session_account == session_accounts[target]
                 IN  IF session_account.id # session_id
                     THEN RejectCall(c, "InvalidSessionId")
                     ELSE IF ~SessionIsActive(session_account)
                     THEN RejectCall(c, "SessionNotActive")
                     ELSE /\ session_accounts' =
                                [session_accounts EXCEPT
                                    ![target].status = "RolledBack",
                                    ![target].rolled_back_at = Some(clock.unix_timestamp)]
                          /\ UNCHANGED <<protection_accounts, transaction_accounts,
                                         batch_accounts, route_executions, proof_accounts>>
                          /\ AcceptEmit(c, None,
                                        <<[name |-> "RollupRolledBack",
                                           session_id |-> session_id,
                                           reason |-> reason,
                                           timestamp |-> clock.unix_timestamp]>>)

RegistryNext ==
    \/ initialize_protection
    \/ submit_transaction
    \/ get_transaction_status
    \/ update_settings
    \/ update_risk_analysis
    \/ complete_transaction

SpecRegistry == Init /\ [][RegistryNext]_vars

BatchNext ==
    \/ Tick
    \/ initialize_protection
    \/ submit_transaction
    \/ create_batch
    \/ add_to_batch
    \/ execute_batch
    \/ get_batch_status
    \/ force_execute_batch
    \/ cancel_batch

SpecBatch == Init /\ [][BatchNext]_vars

RouteNext ==
    \/ initialize_protection
    \/ submit_transaction
    \/ execute_jupiter_swap
    \/ execute_raydium_swap
    \/ execute_orca_swap

SpecRoute == Init /\ [][RouteNext]_vars

SelectNext ==
    \/ initialize_protection
    \/ submit_transaction
    \/ select_best_route

SpecSelect == Init /\ [][SelectNext]_vars

ProofNext ==
    \/ Tick
    \/ initialize_protection
    \/ submit_transaction
    \/ generate_proof
    \/ verify_proof
    \/ get_proof_data
    \/ add_mev_detection
    \/ update_execution_timing
    \/ set_blockchain_signature

SpecProof == Init /\ [][ProofNext]_vars

SessionNext ==
    \/ SessionTick
    \/ init_rollup_session
    \/ execute_in_rollup
    \/ commit_rollup
    \/ rollback_rollup

SpecSession == Init /\ [][SessionNext]_vars

\* the entry points that derive an identifier from a 32-byte value and the
\* clock
IdentifierNext ==
    \/ Tick
    \/ create_batch
    \/ get_batch_status
    \/ init_rollup_session
    \/ commit_rollup

SpecIdentifiers == Init /\ [][IdentifierNext]_vars

\* the entry points that take an identifier next to the record it names
IdentityNext ==
    \/ initialize_protection
    \/ submit_transaction
    \/ get_transaction_status
    \/ update_risk_analysis
    \/ complete_transaction
    \/ create_batch
    \/ execute_batch
    \/ get_batch_status
    \/ force_execute_batch
    \/ cancel_batch

SpecIdentity == Init /\ [][IdentityNext]_vars

\* completing transactions next to proof generation
FingerprintNext ==
    \/ initialize_protection
    \/ submit_transaction
    \/ complete_transaction
    \/ generate_proof
    \/ verify_proof

SpecFingerprint == Init /\ [][FingerprintNext]_vars

\* risk analysis next to the detection log of the proofs
DetectionNext ==
    \/ initialize_protection
    \/ submit_transaction
    \/ update_risk_analysis
    \/ generate_proof
    \/ add_mev_detection

SpecDetection == Init /\ [][DetectionNext]_vars

Next ==
    \/ Tick
    \/ IdentifierNext
    \/ IdentityNext
    \/ FingerprintNext
    \/ DetectionNext
    \/ RegistryNext
    \/ BatchNext
    \/ RouteNext
    \/ SelectNext
    \/ ProofNext
    \/ SessionNext

Spec == Init /\ [][Next]_vars

\* -------------------------------------------------------------- properties
\* position of a status in the TransactionStatus enum
StatusIndex(status) ==
    CASE status = "Pending" -> 0
      [] status = "Simulating" -> 1
      [] status = "Analyzing" -> 2
      [] status = "Executing" -> 3
      [] status = "Completed" -> 4
      [] status = "Failed" -> 5

TerminalStatus(status) == status \in {"Completed", "Failed"}

RegistryMutators ==
    {"submit_transaction", "update_risk_analysis", "complete_transaction", "update_settings"}
BatchMutators == {"add_to_batch", "execute_batch", "force_execute_batch", "cancel_batch"}

\* C1: along every step the status of a transaction record keeps or raises
\* its index in Pending < Simulating < Analyzing < Executing < Completed,
\* unless the step moves it to Failed.
C1_StatusNeverRegresses ==
    [][\A a \in DOMAIN transaction_accounts :
          \/ transaction_accounts'[a].status = "Failed"
          \/ StatusIndex(transaction_accounts'[a].status)
                >= StatusIndex(transaction_accounts[a].status)]_vars

\* C2: a complete_transaction aimed at a transaction that is already
\* Completed or Failed is rejected and changes neither the transaction
\* records nor the profiles.
C2_CompleteRejectedWhenTerminal ==
    [][(/\ call'.op = "complete_transaction"
        /\ TerminalStatus(transaction_accounts[call'.target].status))
       => (result' # "Ok" /\ UNCHANGED registryVars)]_vars

\* C3: an update_risk_analysis aimed at a transaction that is already
\* Completed or Failed is rejected; risk_score, status and the owner's
\* mev_attacks_blocked stay as they were.
C3_RiskAnalysisRejectedWhenTerminal ==
    [][(/\ call'.op = "update_risk_analysis"
        /\ TerminalStatus(transaction_accounts[call'.target].status))
       => (/\ result' # "Ok"
           /\ transaction_accounts'[call'.target].risk_score
                = transaction_accounts[call'.target].risk_score
           /\ transaction_accounts'[call'.target].status
                = transaction_accounts[call'.target].status
           /\ \A w \in DOMAIN protection_accounts :
                protection_accounts'[w].mev_attacks_blocked
                    = protection_accounts[w].mev_attacks_blocked)]_vars

\* C4: every accepted complete_transaction leaves the owner's total_savings
\* at its prior value plus max(0, output_amount - input_amount), and no step
\* ever lowers total_savings.
C4_SavingsExact ==
    [][/\ (call'.op = "complete_transaction" /\ result' = "Ok")
            => LET ta == call'.target
                   owner == ta[1]
               IN  protection_accounts'[owner].total_savings
                     = protection_accounts[owner].total_savings
                       + Savings(transaction_accounts'[ta].output_amount,
                                 transaction_accounts[ta].input_amount)
       /\ \A w \in DOMAIN protection_accounts :
            protection_accounts'[w].total_savings >= protection_accounts[w].total_savings]_vars

RECURSIVE SumSavings(_)
SumSavings(addrs) ==
    IF addrs = {} THEN 0
    ELSE LET a == CHOOSE x \in addrs : TRUE
         IN  Savings(transaction_accounts[a].output_amount,
                     transaction_accounts[a].input_amount)
             + SumSavings(addrs \ {a})

\* C5: in every state an owner's total_savings is the sum of
\* max(0, output - input) over the owner's transactions that were completed,
\* each counted once however often complete_transaction was called on it.
C5_SavingsCountedOnce ==
    \A w \in DOMAIN protection_accounts :
        protection_accounts[w].total_savings =
            SumSavings({a \in DOMAIN transaction_accounts :
                            a[1] = w /\ transaction_accounts[a].completed_at # NoneValue})

\* the identity a record's authority is bound to: the profile owner for the
\* registry, the authority seeded into the batch address for the coordinator
BoundAuthority(c) ==
    IF c.op \in {"submit_transaction", "update_settings"}
    THEN protection_accounts[c.target].owner
    ELSE c.target[1]

\* C6: every accepted mutating call of the registry is made by the owner of
\* the profile it touches, and every accepted mutating call on a batch by the
\* authority bound at its creation.
C6_OnlyAuthorityMutates ==
    [][(call'.op \in RegistryMutators \cup BatchMutators /\ result' = "Ok")
        => call'.signer = BoundAuthority(call')]_vars

\* C7: add_to_batch on a Pending batch that already holds MAX_BATCH_SIZE
\* transactions never succeeds, fails with BatchFull once it is past the
\* account and batch-id checks, and leaves the batch record as it was.
C7_FullBatchRejectsAdd ==
    [][(/\ call'.op = "add_to_batch"
        /\ batch_accounts[call'.target].status = "Pending"
        /\ Len(batch_accounts[call'.target].transactions) = MAX_BATCH_SIZE)
       => (/\ result' # "Ok"
           /\ result' \notin {"ConstraintSeeds", "InvalidBatchId"} => result' = "BatchFull"
           /\ batch_accounts'[call'.target] = batch_accounts[call'.target]
           /\ batch_accounts'[call'.target].transaction_count = MAX_BATCH_SIZE)]_vars

\* a full batch has just refused one more member
C7_Witness ==
    /\ call.op = "add_to_batch"
    /\ result = "BatchFull"
    /\ Len(batch_accounts[call.target].transactions) = MAX_BATCH_SIZE
    /\ batch_accounts[call.target].status = "Pending"

\* C8: in every state transaction_count is the length of the transactions
\* sequence and at most MAX_BATCH_SIZE; a step either leaves the sequence
\* alone or is an accepted add_to_batch that appends one identifier at the
\* end, keeping every earlier member in place; and every accepted
\* add_to_batch does append.
C8_CountAndInsertionOrder ==
    /\ [](\A ba \in DOMAIN batch_accounts :
            /\ batch_accounts[ba].transaction_count = Len(batch_accounts[ba].transactions)
            /\ batch_accounts[ba].transaction_count <= MAX_BATCH_SIZE)
    /\ [][\A ba \in DOMAIN batch_accounts :
            LET old == batch_accounts[ba].transactions
                new == batch_accounts'[ba].transactions
            IN  \/ new = old
                \/ /\ call'.op = "add_to_batch" /\ result' = "Ok"
                   /\ Len(new) = Len(old) + 1
                   /\ SubSeq(new, 1, Len(old)) = old]_vars
    /\ [][(call'.op = "add_to_batch" /\ result' = "Ok")
            => Len(batch_accounts'[call'.target].transactions)
                 = Len(batch_accounts[call'.target].transactions) + 1]_vars

\* a batch filled to capacity whose first two members differ
C8_Witness ==
    \E ba \in DOMAIN batch_accounts :
        /\ batch_accounts[ba].transaction_count = MAX_BATCH_SIZE
        /\ batch_accounts[ba].transactions[1] # batch_accounts[ba].transactions[2]
        /\ call.op = "add_to_batch" /\ result = "Ok"

\* input_amount of the transaction record with this identifier
MemberAmount(transaction_id) ==
    transaction_accounts[CHOOSE a \in DOMAIN transaction_accounts : a[2] = transaction_id].input_amount

RECURSIVE SumAmounts(_)
SumAmounts(transactions) ==
    IF transactions = <<>> THEN 0
    ELSE MemberAmount(Head(transactions)) + SumAmounts(Tail(transactions))

\* C9: in every state a batch's total_value is the mathematical sum of the
\* input amounts of its members, and only an accepted add_to_batch changes it.
C9_TotalValueExact ==
    /\ [](\A ba \in DOMAIN batch_accounts :
            batch_accounts[ba].total_value = SumAmounts(batch_accounts[ba].transactions))
    /\ [][\A ba \in DOMAIN batch_accounts :
            batch_accounts'[ba].total_value # batch_accounts[ba].total_value
                => (call'.op = "add_to_batch" /\ result' = "Ok")]_vars

\* C10: once a batch is Completed or Failed no step changes any of its
\* fields, and every add_to_batch, execute_batch, force_execute_batch and
\* cancel_batch that gets past the account and batch-id checks fails with
\* BatchNotPending.
C10_TerminalBatchImmutable ==
    [][/\ \A ba \in DOMAIN batch_accounts :
            batch_accounts[ba].status \in {"Completed", "Failed"}
                => batch_accounts'[ba] = batch_accounts[ba]
       /\ (/\ call'.op \in BatchMutators
           /\ batch_accounts[call'.target].status \in {"Completed", "Failed"})
          => (/\ result' # "Ok"
              /\ result' \notin {"ConstraintSeeds", "InvalidBatchId"}
                    => result' = "BatchNotPending")]_vars

\* a cancelled batch has just refused to be executed
C10_Witness ==
    /\ call.op \in {"execute_batch", "force_execute_batch"}
    /\ result = "BatchNotPending"
    /\ batch_accounts[call.target].status = "Failed"

\* the age of a batch when it was executed
ExecutionAge(batch_account) == batch_account.executed_at[1] - batch_account.created_at

\* C11: force_execute_batch on a Pending batch younger than
\* MIN_BATCH_AGE_SECONDS never succeeds, fails with BatchTooYoung once past
\* the account and batch-id checks, and leaves the batch as it was; on a
\* Pending batch of at least that age it succeeds, once past the same checks,
\* and leaves the batch Completed; every accepted force_execute_batch records
\* an executed_at at least MIN_BATCH_AGE_SECONDS after created_at.
C11_ForceAgeGate ==
    [][call'.op = "force_execute_batch" =>
        LET old == batch_accounts[call'.target]
            new == batch_accounts'[call'.target]
            age == clock.unix_timestamp - old.created_at
            pastChecks == result' \notin {"ConstraintSeeds", "InvalidBatchId"}
        IN  /\ (old.status = "Pending" /\ age < MIN_BATCH_AGE_SECONDS)
                => (/\ result' # "Ok"
                    /\ pastChecks => result' = "BatchTooYoung"
                    /\ new = old)
            /\ (old.status = "Pending" /\ age >= MIN_BATCH_AGE_SECONDS /\ pastChecks)
                => (result' = "Ok" /\ new.status = "Completed")
            /\ result' = "Ok"
                => (/\ new.status = "Completed"
                    /\ ExecutionAge(new) >= MIN_BATCH_AGE_SECONDS)]_vars

\* a batch of exactly the minimum age has just been force-executed
C11_Witness ==
    /\ call.op = "force_execute_batch"
    /\ result = "Ok"
    /\ batch_accounts[call.target].status = "Completed"
    /\ ExecutionAge(batch_accounts[call.target]) = MIN_BATCH_AGE_SECONDS

\* C12: execute_batch and force_execute_batch on a batch without members are
\* rejected and leave it as it was, so every Completed batch has at least one
\* member.
C12_EmptyBatchNeverExecuted ==
    /\ [](\A ba \in DOMAIN batch_accounts :
            batch_accounts[ba].status = "Completed"
                => batch_accounts[ba].transaction_count >= 1)
    /\ [][(/\ call'.op \in {"execute_batch", "force_execute_batch"}
           /\ batch_accounts[call'.target].transaction_count = 0)
          => (/\ result' # "Ok"
              /\ batch_accounts'[call'.target] = batch_accounts[call'.target])]_vars

\* C13: the batch_hash of every Completed batch is
\* generate_batch_hash(id, executed_at) for its stored executed_at.
C13_CompletedHashBindsExecution ==
    \A ba \in DOMAIN batch_accounts :
        batch_accounts[ba].status = "Completed"
            => batch_accounts[ba].batch_hash
                 = generate_batch_hash(batch_accounts[ba].id, batch_accounts[ba].executed_at[1])

\* the score of the scoring rule, over the integers
ExactScore(route) == (route.estimated_output * (100 - route.mev_risk_score)) \div 100

\* the first position holding a candidate of maximal score
FirstBest(routes) ==
    CHOOSE i \in 1 .. Len(routes) :
        /\ \A j \in 1 .. Len(routes) : ExactScore(routes[j]) <= ExactScore(routes[i])
        /\ \A j \in 1 .. i - 1 : ExactScore(routes[j]) < ExactScore(routes[i])

\* C18: select_best_route on a list of 1 to MAX_ROUTES candidates with risk
\* scores in 0 .. 100 returns
\* the candidate of maximal score estimated_output * (100 - risk_score) / 100,
\* the first one in input order among equals; the answer therefore does not
\* depend on the order of the list when one candidate is strictly best.
C18_SelectsFirstMaximum ==
    [][(/\ call'.op = "select_best_route"
        /\ Len(call'.args.routes) \in 1 .. MAX_ROUTES
        /\ \A i \in 1 .. Len(call'.args.routes) :
                call'.args.routes[i].mev_risk_score <= MAX_RISK_SCORE)
       => LET routes == call'.args.routes
              best == routes[FirstBest(routes)]
          IN  /\ result' = "Ok"
              /\ ret'.selected_dex = best.dex
              /\ ret'.estimated_output = best.estimated_output
              /\ ret'.reasoning = <<best.dex, best.mev_risk_score, best.estimated_output>>]_vars

SwapOps == {"execute_jupiter_swap", "execute_raydium_swap", "execute_orca_swap"}

SwapVenue(op) ==
    CASE op = "execute_jupiter_swap" -> "Jupiter"
      [] op = "execute_raydium_swap" -> "Raydium"
      [] op = "execute_orca_swap" -> "Orca"

\* C19: a swap call that gets past the account checks fails with
\* SlippageExceeded and stores nothing when the venue's output is below
\* min_output, and otherwise succeeds, returns that output and stores a
\* receipt with output_amount >= min_output, proof.pre_balance equal to the
\* transaction's input_amount and proof.post_balance equal to output_amount.
C19_SlippageGuard ==
    [][(/\ call'.op \in SwapOps
        /\ result' \notin {"ConstraintSeeds", "AccountAlreadyInUse"})
       => LET input_amount == transaction_accounts[call'.args.transaction_account].input_amount
              output == simulate_swap(SwapVenue(call'.op), input_amount,
                                      call'.args.route_data_len)
          IN  IF output < call'.args.min_output
              THEN result' = "SlippageExceeded" /\ route_executions' = route_executions
              ELSE /\ result' = "Ok"
                   /\ ret' = output
                   /\ call'.target \in DOMAIN route_executions'
                   /\ LET receipt == route_executions'[call'.target]
                      IN  /\ receipt.output_amount >= call'.args.min_output
                          /\ receipt.proof.pre_balance = input_amount
                          /\ receipt.proof.post_balance = receipt.output_amount]_vars

\* clamp(round((input - output) * 10000 / input), 0, 10000), 0 for input 0
ClampedRoundedImpact(input_amount, output_amount) ==
    IF input_amount = 0 \/ output_amount >= input_amount THEN 0
    ELSE LET rounded == (2 * (input_amount - output_amount) * 10000 + input_amount)
                            \div (2 * input_amount)
         IN  IF rounded < 10000 THEN rounded ELSE 10000

PriceImpactInputs == {0, 1, 3, 7, 100}
PriceImpactOutputs == {0, 1, 6, 100, 101}

\* C20: the price impact stored in every receipt, and calculate_price_impact
\* on every sampled pair, equals
\* clamp(round((input - output) * 10000 / input), 0, 10000), and 0 for input 0.
C20_PriceImpactClampedRounded ==
    /\ \A a \in DOMAIN route_executions :
            route_executions[a].price_impact_bps
                = ClampedRoundedImpact(route_executions[a].input_amount,
                                       route_executions[a].output_amount)
    /\ \A input_amount \in PriceImpactInputs, output_amount \in PriceImpactOutputs :
            calculate_price_impact(input_amount, output_amount)
                = ClampedRoundedImpact(input_amount, output_amount)

\* failures of Anchor's account validation, before any handler runs
AccountErrors == {"ConstraintSeeds", "AccountAlreadyInUse", "AccountNotInitialized"}

\* the fields a fingerprint binds
DecisionFields(proof) ==
    <<proof.proof_hash, proof.transaction_id, proof.routes_considered,
      proof.selected_route, proof.selection_reasoning, proof.created_at>>

\* C14: generate_proof for a transaction identifier that has no proof yet
\* creates the one ProofOfRoute record of that identifier; generate_proof for
\* an identifier that already has one fails and leaves every proof record,
\* fingerprint, candidates, selected venue, reasoning and created_at
\* included, as it was.
C14_ProofWriteOnce ==
    [][call'.op = "generate_proof" =>
        IF call'.target \in DOMAIN proof_accounts
        THEN result' # "Ok" /\ proof_accounts' = proof_accounts
        ELSE result' # "ConstraintSeeds"
                => (/\ result' = "Ok"
                    /\ call'.target \in DOMAIN proof_accounts'
                    /\ proof_accounts'[call'.target].transaction_id
                         = call'.args.transaction_id)]_vars

\* C15: every verify_proof call returns normally; it returns TRUE exactly
\* when a proof is stored for the account it names whose fingerprint and
\* transaction identifier equal the arguments, FALSE otherwise; it changes no
\* proof record and emits exactly one ProofVerified event with the outcome.
C15_VerifyReturnsMatch ==
    [][call'.op = "verify_proof" =>
        LET matches == /\ call'.target \in DOMAIN proof_accounts
                       /\ proof_accounts[call'.target].proof_hash = call'.args.proof_hash
                       /\ proof_accounts[call'.target].transaction_id
                            = call'.args.transaction_id
        IN  /\ result' = "Ok"
            /\ ret' = matches
            /\ proof_accounts' = proof_accounts
            /\ emitted' = <<[name |-> "ProofVerified",
                             proof_hash |-> call'.args.proof_hash,
                             valid |-> matches]>>]_vars

\* C16: a generate_proof that gets past the account checks stores a proof and
\* returns its fingerprint; from then on no step changes the proof's
\* proof_hash, transaction_id, routes_considered, selected_route,
\* selection_reasoning or created_at, and verify_proof with the stored
\* fingerprint and identifier returns TRUE.
C16_FingerprintBindsDecision ==
    /\ [][(call'.op = "generate_proof" /\ result' \notin AccountErrors)
            => (/\ result' = "Ok"
                /\ call'.target \in DOMAIN proof_accounts'
                /\ ret' = proof_accounts'[call'.target].proof_hash)]_vars
    /\ [][\A a \in DOMAIN proof_accounts :
            /\ a \in DOMAIN proof_accounts'
            /\ DecisionFields(proof_accounts'[a]) = DecisionFields(proof_accounts[a])]_vars
    /\ [][(/\ call'.op = "verify_proof"
           /\ call'.target \in DOMAIN proof_accounts
           /\ call'.args.transaction_id = call'.target
           /\ call'.args.proof_hash = proof_accounts[call'.target].proof_hash)
          => (result' = "Ok" /\ ret' = TRUE)]_vars

ProofMutators == {"add_mev_detection", "update_execution_timing", "set_blockchain_signature"}

\* C17: once generate_proof for an identifier got past the account checks,
\* add_mev_detection, update_execution_timing and set_blockchain_signature on
\* that identifier's proof find the record; each of them fails with
\* InvalidProofHash when the fingerprint passed differs from the stored one,
\* add_mev_detection fails with InvalidProbability when the probability
\* exceeds 100, and a failed call leaves every proof record as it was.
C17_FingerprintCheckedBeforeMutation ==
    [][call'.op \in ProofMutators =>
        LET stored == call'.target \in DOMAIN proof_accounts
            mismatch == proof_accounts[call'.target].proof_hash # call'.args.proof_hash
        IN  /\ (call.op = "generate_proof" /\ result \notin AccountErrors
                    /\ call.target = call'.target)
                => result' # "AccountNotInitialized"
            /\ (stored /\ mismatch) => result' = "InvalidProofHash"
            /\ (stored /\ ~mismatch /\ call'.op = "add_mev_detection"
                    /\ call'.args.probability > MAX_PROBABILITY)
                => result' = "InvalidProbability"
            /\ result' # "Ok" => proof_accounts' = proof_accounts]_vars

SessionMutators == {"execute_in_rollup", "commit_rollup", "rollback_rollup"}

\* the fields of a session the mutating entry points write
SessionProgress(session_account) ==
    <<session_account.status, session_account.state_hash,
      session_account.instructions_executed, session_account.committed_at,
      session_account.rolled_back_at>>

\* C21: execute_in_rollup, commit_rollup and rollback_rollup on a session
\* whose status is not Active, or whose expires_at the clock has reached, are
\* rejected and leave status, state_hash, instructions_executed, committed_at
\* and rolled_back_at as they were; and expires_at is created_at + 300.
C21_NoMutationOnceInactiveOrExpired ==
    /\ [](\A a \in DOMAIN session_accounts :
            session_accounts[a].expires_at
                = session_accounts[a].created_at + ROLLUP_SESSION_TIMEOUT)
    /\ [][(/\ call'.op \in SessionMutators
           /\ call'.target \in DOMAIN session_accounts
           /\ \/ session_accounts[call'.target].status # "Active"
              \/ clock.unix_timestamp >= session_accounts[call'.target].expires_at)
          => (/\ result' # "Ok"
              /\ SessionProgress(session_accounts'[call'.target])
                    = SessionProgress(session_accounts[call'.target]))]_vars

\* C22: a session leaves Active at most once, for Committed or RolledBack,
\* and a session that left Active never changes again; commit_rollup and
\* rollback_rollup on such a session fail, with SessionNotActive once past
\* the session-id check; committed_at is set exactly on Committed sessions
\* and rolled_back_at exactly on RolledBack ones, so never both; and no
\* stored status is Expired.
C22_SessionTerminatesOnce ==
    /\ [](\A a \in DOMAIN session_accounts :
            LET session_account == session_accounts[a]
            IN  /\ session_account.status \in {"Active", "Committed", "RolledBack"}
                /\ (session_account.committed_at # NoneValue)
                        <=> session_account.status = "Committed"
                /\ (session_account.rolled_back_at # NoneValue)
                        <=> session_account.status = "RolledBack")
    /\ [][\A a \in DOMAIN session_accounts :
            /\ a \in DOMAIN session_accounts'
            /\ session_accounts[a].status # "Active"
                    => session_accounts'[a] = session_accounts[a]
            /\ session_accounts'[a].status # session_accounts[a].status
                    => session_accounts'[a].status \in {"Committed", "RolledBack"}]_vars
    /\ [][(/\ call'.op \in {"commit_rollup", "rollback_rollup"}
           /\ call'.target \in DOMAIN session_accounts
           /\ session_accounts[call'.target].status # "Active")
          => (/\ result' # "Ok"
              /\ result' # "InvalidSessionId" => result' = "SessionNotActive")]_vars

\* a rolled-back session has just refused to be committed
C22_Witness ==
    /\ call.op = "commit_rollup"
    /\ result = "SessionNotActive"
    /\ call.target \in DOMAIN session_accounts
    /\ session_accounts[call.target].status = "RolledBack"
    /\ session_accounts[call.target].instructions_executed > 0

\* C23: every accepted execute_in_rollup sets state_hash to
\* update_state_hash of the previous hash and the instruction bytes and
\* raises instructions_executed by exactly 1; and from the hash of any
\* session, executing two different instructions in one order gives another
\* hash than executing them in the other order.
C23_StateHashOrderDependent ==
    /\ [][(call'.op = "execute_in_rollup" /\ result' = "Ok")
            => LET old == session_accounts[call'.target]
                   new == session_accounts'[call'.target]
                   data == call'.args.instruction_data
               IN  /\ new.state_hash = update_state_hash(old.state_hash, data, Len(data) > 0)
                   /\ new.instructions_executed = old.instructions_executed + 1]_vars
    /\ [](\A a \in DOMAIN session_accounts :
            \A A \in InstructionDatas, B \in InstructionDatas :
                A # B =>
                    LET h == session_accounts[a].state_hash
                        thenB(x) == update_state_hash(x, B, Len(B) > 0)
                        thenA(x) == update_state_hash(x, A, Len(A) > 0)
                    IN  thenB(thenA(h)) # thenA(thenB(h)))

\* the entry points that write an account when they are accepted
MutatingEntryPoints ==
    {"initialize_protection", "create_batch", "generate_proof", "init_rollup_session"}
        \cup RegistryMutators \cup BatchMutators \cup SwapOps \cup ProofMutators
        \cup SessionMutators

\* C24: every accepted call of a mutating entry point emits exactly one
\* event, update_risk_analysis included whether or not an attack was
\* detected, and a call that fails emits none.
C24_OneEventPerAcceptedTransition ==
    [][/\ (call'.op \in MutatingEntryPoints /\ result' = "Ok") => Len(emitted') = 1
       /\ result' # "Ok" => emitted' = <<>>]_vars

\* C25: in every state every profile has max_slippage_bps <= 1000 and
\* max_mev_risk_score <= 100; an update_settings by the owner with
\* max_slippage > 1000 fails with InvalidSlippage, one with an admissible
\* slippage and max_mev_risk > 100 fails with InvalidRiskScore, and a failed
\* update_settings leaves every profile as it was.
C25_SettingsWithinBounds ==
    /\ [](\A w \in DOMAIN protection_accounts :
            /\ protection_accounts[w].settings.max_slippage_bps <= MAX_SLIPPAGE_BPS
            /\ protection_accounts[w].settings.max_mev_risk_score <= MAX_RISK_SCORE)
    /\ [][call'.op = "update_settings" =>
            /\ call'.args.max_slippage > MAX_SLIPPAGE_BPS
                => result' \in {"ConstraintRaw", "InvalidSlippage"}
            /\ (call'.args.max_slippage > MAX_SLIPPAGE_BPS
                    /\ call'.signer = protection_accounts[call'.target].owner)
                => result' = "InvalidSlippage"
            /\ (call'.args.max_slippage <= MAX_SLIPPAGE_BPS
                    /\ call'.args.max_mev_risk > MAX_RISK_SCORE
                    /\ call'.signer = protection_accounts[call'.target].owner)
                => result' = "InvalidRiskScore"
            /\ result' # "Ok" => protection_accounts' = protection_accounts
            /\ result' = "Ok"
                => /\ protection_accounts'[call'.target].settings.max_slippage_bps
                        = call'.args.max_slippage
                   /\ protection_accounts'[call'.target].settings.max_mev_risk_score
                        = call'.args.max_mev_risk]_vars

\* a profile set to the largest admissible slippage has just refused a risk
\* threshold above 100
C25_Witness ==
    /\ call.op = "update_settings"
    /\ result = "InvalidRiskScore"
    /\ protection_accounts[call.target].settings.max_slippage_bps = MAX_SLIPPAGE_BPS
    /\ protection_accounts[call.target].settings.max_mev_risk_score = MAX_RISK_SCORE

\* C26: initialize_protection for a wallet that already has a profile fails
\* and leaves every profile, counters and settings included, as it was; its
\* owner never changes.
C26_ProfileCreatedOnce ==
    [][/\ (call'.op = "initialize_protection"
                /\ call'.target \in DOMAIN protection_accounts)
            => (result' # "Ok" /\ protection_accounts' = protection_accounts)
       /\ \A w \in DOMAIN protection_accounts :
            /\ w \in DOMAIN protection_accounts'
            /\ protection_accounts'[w].owner = protection_accounts[w].owner]_vars

\* a profile with a submitted transaction, recorded savings and changed
\* settings has just refused to be initialized again
C26_Witness ==
    /\ call.op = "initialize_protection"
    /\ result = "AccountAlreadyInUse"
    /\ protection_accounts[call.target].total_transactions > 0
    /\ protection_accounts[call.target].total_savings > 0
    /\ protection_accounts[call.target].settings.max_slippage_bps # DEFAULT_SLIPPAGE_BPS

\* the 32-byte values and timestamps the derivers are compared on
DeriverInputs == Identities \cup SessionTransactionIds \cup {ZERO32}
DeriverTimes == {ClockTimes[i] : i \in 1 .. Len(ClockTimes)}

\* C27: derivers of different entity kinds never return the same value for
\* the same input bytes: no stored batch id equals a stored session id, and
\* on every sampled 32-byte value and timestamp the batch deriver, the
\* session deriver and the transaction deriver (fed the same value and
\* timestamp, nothing else) disagree pairwise.
C27_DeriversDomainSeparated ==
    /\ \A ba \in DOMAIN batch_accounts, sa \in DOMAIN session_accounts :
            batch_accounts[ba].id # session_accounts[sa].id
    /\ \A x \in DeriverInputs, t \in DeriverTimes :
            /\ generate_batch_id(x, t) # generate_session_id(x, t)
            /\ generate_batch_id(x, t) # generate_transaction_id(x, ZERO32, ZERO32, 0, t)
            /\ generate_session_id(x, t) # generate_transaction_id(x, ZERO32, ZERO32, 0, t)

\* every account of every program
accountVars ==
    <<protection_accounts, transaction_accounts, batch_accounts, route_executions,
      proof_accounts, session_accounts>>

TransactionIdOps == {"get_transaction_status", "update_risk_analysis", "complete_transaction"}
BatchIdOps ==
    {"add_to_batch", "execute_batch", "get_batch_status", "force_execute_batch", "cancel_batch"}

\* the call names a transaction id other than the one stored in its target
TransactionIdMismatch(c) ==
    c.op \in TransactionIdOps /\ transaction_accounts[c.target].id # c.args.transaction_id

\* the call names a batch id other than the one stored in its target
BatchIdMismatch(c) ==
    c.op \in BatchIdOps /\ batch_accounts[c.target].id # c.args.batch_id

TransactionStatuses ==
    {"Pending", "Simulating", "Analyzing", "Executing", "Completed", "Failed"}

\* the status changes the entry points can make to a stored transaction:
\* update_risk_analysis assigns Analyzing and complete_transaction assigns
\* Completed, both whatever the status was; submit_transaction assigns Pending
\* to a record it creates and no other entry point assigns a status
TransactionStatusSteps ==
    {<<from, "Analyzing">> : from \in TransactionStatuses}
        \cup {<<from, "Completed">> : from \in TransactionStatuses}

\* the statuses one more call can add to a set of statuses
StatusSuccessors(statuses) ==
    statuses \cup {step[2] : step \in {s \in TransactionStatusSteps : s[1] \in statuses}}

\* the statuses some sequence of calls leads to
RECURSIVE StatusesReachableFrom(_)
StatusesReachableFrom(statuses) ==
    IF StatusSuccessors(statuses) = statuses
    THEN statuses
    ELSE StatusesReachableFrom(StatusSuccessors(statuses))

\* every change of a stored transaction's status is one of TransactionStatusSteps
StatusChangesAreSteps ==
    [][\A ta \in DOMAIN transaction_accounts :
          \/ transaction_accounts'[ta].status = transaction_accounts[ta].status
          \/ <<transaction_accounts[ta].status, transaction_accounts'[ta].status>>
                 \in TransactionStatusSteps]_vars

\* no stored transaction has the status Failed
NoTransactionFailed ==
    \A ta \in DOMAIN transaction_accounts : transaction_accounts[ta].status # "Failed"

\* C30: from the status of every stored transaction that is not terminal
\* (Pending, Simulating, Analyzing or Executing) some sequence of entry-point
\* calls leads to the status Failed.
C30_FailedReachable ==
    \A ta \in DOMAIN transaction_accounts :
        ~TerminalStatus(transaction_accounts[ta].status)
            => "Failed" \in StatusesReachableFrom({transaction_accounts[ta].status})

\* log is the beginning of longer, entry for entry
IsPrefix(log, longer) ==
    /\ Len(log) <= Len(longer)
    /\ \A i \in 1 .. Len(log) : longer[i] = log[i]

\* C31: the detection log of a proof is append-only and bounded.  A proof
\* that generate_proof was asked to create is there for add_mev_detection to
\* append to; every log holds at most 20 entries, each with probability
\* <= 100; no step removes, reorders or alters an entry; and an append to a
\* log that holds 20 entries fails and changes no proof record.
C31_DetectionLogAppendOnlyBounded ==
    /\ [](\A a \in DOMAIN proof_accounts :
            LET log == proof_accounts[a].mev_detection_log
            IN  /\ Len(log) <= MAX_DETECTION_LOG
                /\ \A i \in 1 .. Len(log) : log[i].probability <= MAX_PROBABILITY)
    /\ [][\A a \in DOMAIN proof_accounts :
            /\ a \in DOMAIN proof_accounts'
            /\ IsPrefix(proof_accounts[a].mev_detection_log,
                        proof_accounts'[a].mev_detection_log)]_vars
    /\ [][call'.op = "add_mev_detection" =>
            /\ (/\ call.op = "generate_proof"
                /\ result \notin AccountErrors
                /\ call.target = call'.target)
                => result' # "AccountNotInitialized"
            /\ (/\ call'.target \in DOMAIN proof_accounts
                /\ Len(proof_accounts[call'.target].mev_detection_log)
                     >= MAX_DETECTION_LOG)
                => (result' # "Ok" /\ proof_accounts' = proof_accounts)]_vars

\* total_time of a proof is the sum of its three phases
TimingConsistent(proof) ==
    proof.total_time
        = proof.simulation_time + proof.route_selection_time + proof.execution_time

\* C32: in every proof record total_time is the exact sum of simulation_time,
\* route_selection_time and execution_time.  A generate_proof that gets past
\* the account checks stores a record with such a breakdown, and an accepted
\* update_execution_timing stores the three phases passed and their exact
\* sum, whatever the timings were before.
C32_TotalTimeIsExactSum ==
    /\ [](\A a \in DOMAIN proof_accounts : TimingConsistent(proof_accounts[a]))
    /\ [][(call'.op = "generate_proof" /\ result' \notin AccountErrors)
            => (/\ result' = "Ok"
                /\ call'.target \in DOMAIN proof_accounts'
                /\ TimingConsistent(proof_accounts'[call'.target]))]_vars
    /\ [][(call'.op = "update_execution_timing" /\ result' = "Ok")
            => LET proof == proof_accounts'[call'.target]
               IN  /\ proof.simulation_time = call'.args.simulation_time
                   /\ proof.route_selection_time = call'.args.route_selection_time
                   /\ proof.execution_time = call'.args.execution_time
                   /\ proof.total_time
                        = call'.args.simulation_time + call'.args.route_selection_time
                            + call'.args.execution_time]_vars

\* the transaction records stored for one owner
TransactionsOf(owner) == {ta \in DOMAIN transaction_accounts : ta[1] = owner}

\* C33: a profile's total_transactions is the number of transaction records
\* stored for its owner; an accepted submit_transaction creates one record,
\* Pending, with output_amount 0, risk_score 0, zero proof_hash, no batch and
\* no completed_at, and adds exactly 1 to the owner's total_transactions; and
\* no step lowers total_transactions, total_savings or mev_attacks_blocked.
C33_CountersConsistentAndMonotone ==
    /\ [](\A pa \in DOMAIN protection_accounts :
            protection_accounts[pa].total_transactions
                = Cardinality(TransactionsOf(protection_accounts[pa].owner)))
    /\ [][(call'.op = "submit_transaction" /\ result' = "Ok")
            => LET pa == call'.target
                   addr == <<protection_accounts[pa].owner, ret'>>
               IN  /\ addr \notin DOMAIN transaction_accounts
                   /\ DOMAIN transaction_accounts' = DOMAIN transaction_accounts \cup {addr}
                   /\ transaction_accounts'[addr].status = "Pending"
                   /\ transaction_accounts'[addr].output_amount = 0
                   /\ transaction_accounts'[addr].risk_score = 0
                   /\ transaction_accounts'[addr].proof_hash = ZERO32
                   /\ transaction_accounts'[addr].batch_id = NoneValue
                   /\ transaction_accounts'[addr].completed_at = NoneValue
                   /\ protection_accounts'[pa].total_transactions
                        = protection_accounts[pa].total_transactions + 1]_vars
    /\ [][\A pa \in DOMAIN protection_accounts :
            /\ pa \in DOMAIN protection_accounts'
            /\ protection_accounts'[pa].total_transactions
                 >= protection_accounts[pa].total_transactions
            /\ protection_accounts'[pa].total_savings
                 >= protection_accounts[pa].total_savings
            /\ protection_accounts'[pa].mev_attacks_blocked
                 >= protection_accounts[pa].mev_attacks_blocked]_vars

\* the entry points of the registry (protection manager)
RegistryOps ==
    {"initialize_protection", "submit_transaction", "get_transaction_status",
     "update_settings", "update_risk_analysis", "complete_transaction"}

\* C34: a call to an entry point outside the registry (batch coordinator,
\* route executor, proof verifier, session extension) changes no profile and
\* no transaction record, and a call to a registry entry point changes no
\* batch, receipt, proof or session.
C34_RecordsMutatedByOwnerOnly ==
    [][/\ call'.op \notin RegistryOps
            => UNCHANGED <<protection_accounts, transaction_accounts>>
       /\ call'.op \in RegistryOps
            => UNCHANGED <<batch_accounts, route_executions, proof_accounts,
                           session_accounts>>]_vars

\* add_to_batch has just been accepted for a stored transaction, which still
\* names no batch, in a batch that now holds it
C34_Witness ==
    /\ call.op = "add_to_batch"
    /\ result = "Ok"
    /\ \E ta \in DOMAIN transaction_accounts :
        /\ ta[2] = call.args.transaction_id
        /\ transaction_accounts[ta].batch_id = NoneValue
    /\ batch_accounts[call.target].transaction_count > 0

\* the call just made is an accepted execute_in_rollup on the session at a
AcceptedExecutionOn(a) ==
    call'.op = "execute_in_rollup" /\ result' = "Ok" /\ call'.target = a

\* C35: a session starts with instructions_executed = 0 and the counter
\* grows by exactly 1 with each accepted execute_in_rollup on it and with
\* nothing else, so it is the number of accepted executions; commit_rollup
\* with the session's id on an Active, unexpired session is accepted; and an
\* accepted commit_rollup returns a CommitProof carrying the session's
\* state_hash and counter, sets status to Committed and committed_at to the
\* current time, and leaves state_hash and the counter as they were.
C35_CommitBindsHashAndCount ==
    /\ [][\A a \in DOMAIN session_accounts' :
            session_accounts'[a].instructions_executed
                = (IF a \in DOMAIN session_accounts
                   THEN session_accounts[a].instructions_executed ELSE 0)
                  + (IF AcceptedExecutionOn(a) THEN 1 ELSE 0)]_vars
    /\ [][(/\ call'.op = "commit_rollup"
           /\ call'.target \in DOMAIN session_accounts
           /\ session_accounts[call'.target].id = call'.args.session_id
           /\ session_accounts[call'.target].status = "Active"
           /\ clock.unix_timestamp < session_accounts[call'.target].expires_at)
            => result' = "Ok"]_vars
    /\ [][(call'.op = "commit_rollup" /\ result' = "Ok")
            => LET before == session_accounts[call'.target]
                   after == session_accounts'[call'.target]
               IN  /\ before.status = "Active"
                   /\ ret'.state_hash = before.state_hash
                   /\ ret'.instructions_executed = before.instructions_executed
                   /\ after = [before EXCEPT
                                  !.status = "Committed",
                                  !.committed_at = Some(clock.unix_timestamp)]]_vars

\* a session with two accepted executions and a state hash that is not all
\* zeroes has just been committed
C35_Witness ==
    /\ call.op = "commit_rollup"
    /\ result = "Ok"
    /\ session_accounts[call.target].status = "Committed"
    /\ session_accounts[call.target].instructions_executed = 2
    /\ session_accounts[call.target].state_hash # ZeroHash
    /\ ret.state_hash = session_accounts[call.target].state_hash

\* the 32 bytes of a hash the registry stores
HashBytes(words) == [p \in 0 .. HASH_LEN - 1 |-> ByteAt(words, p)]

\* generate_proof_hash recomputed from what a proof record stores
RecomputedProofHash(proof) ==
    generate_proof_hash(proof.transaction_id, proof.routes_considered,
                        proof.selected_route, proof.selection_reasoning,
                        proof.created_at)

\* C36: a generate_proof that gets past the account checks stores a proof;
\* the fingerprint of every stored proof is generate_proof_hash recomputed
\* from its transaction_id, routes_considered, selected_route,
\* selection_reasoning and created_at; and whenever a transaction is Completed
\* and a proof is stored for its identifier, the proof_hash in the
\* transaction record is that fingerprint.
C36_FingerprintConsistentAcrossComponents ==
    /\ [][(call'.op = "generate_proof" /\ result' \notin AccountErrors)
            => (result' = "Ok" /\ call'.target \in DOMAIN proof_accounts')]_vars
    /\ [](\A a \in DOMAIN proof_accounts :
            proof_accounts[a].proof_hash = RecomputedProofHash(proof_accounts[a]))
    /\ [](\A ta \in DOMAIN transaction_accounts :
            (/\ transaction_accounts[ta].status = "Completed"
             /\ transaction_accounts[ta].id \in DOMAIN proof_accounts)
                => HashBytes(transaction_accounts[ta].proof_hash)
                     = proof_accounts[transaction_accounts[ta].id].proof_hash)

\* C37: for every Pending, non-empty batch of age >= 30, at any clock value,
\* execute_batch and force_execute_batch called with the batch's id leave
\* the same batch record (status, executed_at, completed_at,
\* execution_time_ms, batch_hash) and return the same BatchExecutionResult,
\* with successful_txs = transaction_count and failed_txs = 0.
C37_ForcedEqualsNormalExecution ==
    \A ba \in DOMAIN batch_accounts :
        LET batch_account == batch_accounts[ba]
            normal == execute_batch_outcome(batch_account, batch_account.id)
            forced == force_execute_batch_outcome(batch_account)
        IN  (/\ BatchIsPending(batch_account)
             /\ BatchNotEmpty(batch_account)
             /\ BatchOldEnough(batch_account))
                => /\ normal.batch_account = forced.batch_account
                   /\ normal.result = forced.result
                   /\ normal.result.successful_txs = batch_account.transaction_count
                   /\ normal.result.failed_txs = 0

\* C38: a transaction identifier occurs at most once in the transactions
\* sequence of a batch, and an add_to_batch of an identifier the batch
\* already holds changes neither transaction_count nor total_value.
C38_AddToBatchSafeToRetry ==
    /\ [](\A ba \in DOMAIN batch_accounts :
            LET transactions == batch_accounts[ba].transactions
            IN  \A i, j \in 1 .. Len(transactions) :
                    transactions[i] = transactions[j] => i = j)
    /\ [][(/\ call'.op = "add_to_batch"
           /\ call'.target \in DOMAIN batch_accounts
           /\ \E i \in 1 .. Len(batch_accounts[call'.target].transactions) :
                 batch_accounts[call'.target].transactions[i] = call'.args.transaction_id)
            => (/\ batch_accounts'[call'.target].transaction_count
                     = batch_accounts[call'.target].transaction_count
                /\ batch_accounts'[call'.target].total_value
                     = batch_accounts[call'.target].total_value)]_vars

\* the detection entries logged in the proofs of a set of transactions
RECURSIVE DetectionsLogged(_)
DetectionsLogged(transactions) ==
    IF transactions = {} THEN 0
    ELSE LET ta == CHOOSE t \in transactions : TRUE
         IN  (IF ta[2] \in DOMAIN proof_accounts
              THEN Len(proof_accounts[ta[2]].mev_detection_log) ELSE 0)
             + DetectionsLogged(transactions \ {ta})

\* C39: an accepted update_risk_analysis that flags a detection (it raises
\* MEVDetected) adds exactly 1 to the owner's mev_attacks_blocked and one
\* that flags none leaves it unchanged; and an owner's mev_attacks_blocked
\* never exceeds the number of detection entries logged in the proofs of
\* that owner's transactions.
C39_DetectionAccountingConsistent ==
    /\ [][(call'.op = "update_risk_analysis" /\ result' = "Ok")
            => LET pa == call'.target[1]
               IN  protection_accounts'[pa].mev_attacks_blocked
                     = protection_accounts[pa].mev_attacks_blocked
                       + (IF emitted' # <<>> THEN 1 ELSE 0)]_vars
    /\ [](\A pa \in DOMAIN protection_accounts :
            protection_accounts[pa].mev_attacks_blocked
                <= DetectionsLogged(TransactionsOf(protection_accounts[pa].owner)))

\* a candidate list the bounds refuse: more than 10 candidates, or a
\* candidate with a risk score above 100
OutOfBounds(routes) ==
    \/ Len(routes) > MAX_ROUTES
    \/ \E i \in 1 .. Len(routes) : routes[i].mev_risk_score > MAX_RISK_SCORE

\* the candidate list a call passes
CandidatesPassed(c) ==
    IF c.op = "select_best_route" THEN c.args.routes ELSE c.args.routes_considered

\* C40: select_best_route and generate_proof called with more than 10
\* candidates, or with a candidate whose risk score exceeds 100, are refused
\* by a check, before any score is computed (so not by the arithmetic of
\* calculate_route_score failing), and change no account; and no stored
\* proof holds more than 10 candidates or a candidate risk above 100.
C40_CandidateBoundsEnforced ==
    /\ [][(/\ call'.op \in {"select_best_route", "generate_proof"}
           /\ OutOfBounds(CandidatesPassed(call')))
            => (/\ result' \notin {"Ok", "ArithmeticOverflow", "Panic"}
                /\ UNCHANGED accountVars)]_vars
    /\ [](\A a \in DOMAIN proof_accounts :
            ~OutOfBounds(proof_accounts[a].routes_considered))

====
